---- MODULE Spec2Model ----
(***************************************************************************)
(* Signal detection and aggregation engine: the storage tables, the rollup *)
(* aggregator and the three rule evaluators (price alerts, trend channel,  *)
(* volume spike), modelled from rules/, aggregator/ and storage/.          *)
(*                                                                         *)
(* Numbers: prices, levels and volumes are integers.  A fraction such as   *)
(* pct or hysteresis_pct is held in hundredths (50 stands for 0.50) and    *)
(* every comparison the code makes on floats is made here on the cross     *)
(* multiplied integers, so rounding of the float arithmetic is not         *)
(* modelled.                                                               *)
(***************************************************************************)
EXTENDS Integers, Sequences, FiniteSets, TLC

VARIABLES
    bars1m,      \* table bars_1m: set of candle rows
    bars5m,      \* table bars_5m: set of candle rows
    bars15m,     \* table bars_15m: set of candle rows
    events,      \* table events: set of event rows, one per id
    kv,          \* kv_state row "price_state:<rule id>": None or Some(state)
    rule,        \* the price_alert_rules row under evaluation
    batch,       \* the other enabled rows of price_alert_rules
    now,         \* wall clock, seconds
    lastScan,    \* observation: what the most recent scan_price_alerts did
    track,       \* observation: history of the rule since its last fire
    lastRollup,  \* observation: what the most recent rollup_bars run did
    cooldown,    \* table cooldown_state: set of rows, one per key
    settings,    \* the configuration the trend and volume scans run under
    lastRun,     \* observation: what the most recent trend or volume scan did
    history,     \* observation: fires and deliveries so far
    tasks,       \* run.py: where each periodic task of loop_forever stands
    threads,     \* run.py: the calls running in worker threads (to_thread)
    notifier,    \* LocalNotifier: the fields of the running client
    notifierState,  \* table local_notifier_state: None or Some(row)
    played,      \* observation: how often poll_once processed each event row
    failStates,  \* dex_api._FAIL_STATES[name]: None or Some(state)
    lastCloseTs, \* BinanceStream._last_close_ts[symbol]: None or Some(ts)
    lastCall     \* observation: what the most recent connector call did

\* the state of the service loop, the notifier and the connectors
serviceVars ==
    <<tasks, threads, notifier, notifierState, played, failStates, lastCloseTs,
      lastCall>>

vars ==
    <<bars1m, bars5m, bars15m, events, kv, rule, batch, now, lastScan, track,
      lastRollup, cooldown, settings, lastRun, history, serviceVars>>

\* what the price-alert evaluator does not write
beyondPrice ==
    <<bars15m, serviceVars, batch, lastRollup, cooldown, settings, lastRun, history>>

----------------------------------------------------------------------------
(* Bounds of the model *)

MaxPrice == 4         \* 1-minute closes range over 1..MaxPrice
MaxTime == 3          \* the clock stops at MaxTime
MaxTotal == 2         \* confirm_samples_total and _pass range over 0..MaxTotal
MaxSamples == MaxTotal + 1   \* scans stop once the stored samples are this many

Window == 2           \* minutes per rollup bucket
MaxSlot == 3          \* 1-minute candles close at 60, 120, ..., 60 * MaxSlot
MaxBars == 3          \* ingestion stops once bars_1m holds this many rows
MaxBuckets == 2       \* a series of candles fills 1..MaxBuckets buckets

Level == 3            \* the level of the above and below rules
ConfirmSeconds == 1   \* confirm_seconds of the rules

----------------------------------------------------------------------------
(* Optional values (Python None) and truthiness *)

None == <<>>
Some(v) == <<v>>
IsSet(o) == o # <<>>
Val(o) == o[1]
\* Python `if x:` / `x or y` on a number that may be None
Truthy(o) == o # <<>> /\ o[1] # 0
OrElse(o, d) == IF Truthy(o) THEN o[1] ELSE d

Max2(a, b) == IF a >= b THEN a ELSE b

----------------------------------------------------------------------------
(* storage/sqlite_manager.py *)

\* the conflict columns held as optional values: chain (the other key columns
\* always get a value from their writers)
NullableKeys == {"chain"}

\* INSERT ... ON CONFLICT(conflict) DO UPDATE SET every payload column that is
\* neither a conflict column nor skipped; DO NOTHING when no column is left.
\* The conflict is on a UNIQUE index, where SQLite takes every NULL as
\* distinct: a payload with NULL in a conflict column never conflicts.
\* A new row takes the payload's columns and the table defaults for the rest.
BuildUpsert(table, payload, conflict, skip, defaults) ==
    LET hit == {row \in table :
                   \A c \in conflict :
                       /\ row[c] = payload[c]
                       /\ c \in NullableKeys => IsSet(payload[c])}
        updateColumns == (DOMAIN payload \ conflict) \ skip
    IN  IF hit # {}
        THEN (table \ hit) \cup
             {[c \in DOMAIN row |->
                  IF c \in updateColumns THEN payload[c] ELSE row[c]] : row \in hit}
        ELSE table \cup
             {[c \in DOMAIN defaults |->
                  IF c \in DOMAIN payload THEN payload[c] ELSE defaults[c]]}

EventDefaults ==
    [id |-> None, ts |-> None, symbol |-> None, source |-> None,
     exchange |-> None, timeframe |-> None, rule |-> None, severity |-> None,
     message |-> None, detail_json |-> None, created_at |-> None,
     delivered |-> 0]

\* variant of insert_event that keeps the stored row on a conflict
\* (ON CONFLICT(id) DO NOTHING)
InsertEventIgnore(table, event) ==
    IF \E row \in table : row.id = event.id THEN table
    ELSE BuildUpsert(table, event, {"id"}, {}, EventDefaults)

InsertEvent(table, event) ==
    BuildUpsert(table, event, {"id"}, {}, EventDefaults)

\* bid INTEGER PRIMARY KEY AUTOINCREMENT; rows are never deleted
NextBid(table) == Cardinality(table) + 1

BarKey == {"source", "exchange", "chain", "symbol", "close_ts"}

BarDefaults(table) ==
    [bid |-> NextBid(table), source |-> None, exchange |-> None, chain |-> None,
     symbol |-> None, base |-> None, quote |-> None, open_ts |-> None,
     close_ts |-> None, open |-> None, high |-> None, low |-> None,
     close |-> None, volume_base |-> None, volume_quote |-> None,
     notional_usd |-> None, trades |-> None]

\* variant of upsert_bar that replaces the conflicting row by a new one
\* (INSERT OR REPLACE), which draws a fresh bid
UpsertBarReplace(table, bar) ==
    LET hit == {row \in table :
                   \A c \in BarKey :
                       row[c] = bar[c] /\ (c \in NullableKeys => IsSet(bar[c]))}
    IN  (table \ hit) \cup
        {[c \in DOMAIN BarDefaults(table) |->
             IF c \in DOMAIN bar THEN bar[c] ELSE BarDefaults(table)[c]]}

UpsertBar(table, bar) ==
    BuildUpsert(table, bar, BarKey, {"bid"}, BarDefaults(table))

\* ORDER BY close_ts; rows with equal close_ts come in rowid (bid) order
BarBefore(a, b) ==
    \/ a.close_ts < b.close_ts
    \/ a.close_ts = b.close_ts /\ a.bid < b.bid

SymbolRows(table, symbol) == {row \in table : row.symbol = symbol}

\* fetch_recent_bars(table, symbol, 1)[0]
FetchLatestBar(table, symbol) ==
    LET rows == SymbolRows(table, symbol)
    IN  IF rows = {} THEN None
        ELSE Some(CHOOSE r \in rows : \A o \in rows : o = r \/ BarBefore(o, r))

RECURSIVE SortBars(_)
\* ORDER BY close_ts ASC, as a sequence
SortBars(rows) ==
    IF rows = {} THEN <<>>
    ELSE LET first == CHOOSE r \in rows :
                          \A o \in rows : o = r \/ BarBefore(r, o)
         IN  <<first>> \o SortBars(rows \ {first})

\* fetch_recent_bars: the latest `limit` bars of the symbol, ascending
FetchRecentBars(table, symbol, limit) ==
    LET rows == SortBars(SymbolRows(table, symbol))
    IN  IF limit <= 0 THEN <<>>
        ELSE IF Len(rows) <= limit THEN rows
        ELSE SubSeq(rows, Len(rows) - limit + 1, Len(rows))

----------------------------------------------------------------------------
(* indicators/ema.py and indicators/atr.py, as _atr_breakout uses them.      *)
(* Their values are fractions, held in lowest terms as [n, d] with d > 0.    *)

RECURSIVE SumSeq(_)
SumSeq(s) == IF s = <<>> THEN 0 ELSE s[1] + SumSeq(Tail(s))

Abs(x) == IF x >= 0 THEN x ELSE -x

RECURSIVE Gcd(_, _)
Gcd(a, b) == IF b = 0 THEN a ELSE Gcd(b, a % b)

\* n / d in lowest terms, for d > 0
Frac(n, d) ==
    CHOOSE f \in {[n |-> n \div g, d |-> d \div g] : g \in {Gcd(Abs(n), d)}} : TRUE

RECURSIVE EmaAt(_, _, _)
\* ema(series, span)[i - 1]: the first value, then
\* prev + alpha * (value - prev) with alpha = 2 / (span + 1)
EmaAt(series, i, span) ==
    IF i = 1 THEN Frac(series[1], 1)
    ELSE CHOOSE f \in {Frac((span - 1) * prev.n + 2 * series[i] * prev.d,
                            (span + 1) * prev.d) :
                          prev \in {EmaAt(series, i - 1, span)}} : TRUE

\* the true ranges of atr()
TrueRanges(bars) ==
    [i \in DOMAIN bars |->
        LET hl == bars[i].high - bars[i].low
        IN  IF i = 1 THEN hl
            ELSE Max2(hl, Max2(Abs(bars[i].high - bars[i - 1].close),
                               Abs(bars[i].low - bars[i - 1].close)))]

RECURSIVE AtrAt(_, _, _)
\* atr(high, low, close, period)[i - 1] for i >= period, from the true ranges:
\* the mean of the first `period` ranges, then (prev * (period - 1) + tr) / period
AtrAt(ranges, i, period) ==
    IF i = period THEN Frac(SumSeq(SubSeq(ranges, 1, period)), period)
    ELSE CHOOSE f \in {Frac(prev.n * (period - 1) + ranges[i] * prev.d,
                            prev.d * period) :
                          prev \in {AtrAt(ranges, i - 1, period)}} : TRUE

\* atr(...)[-1]: None while fewer than `period` bars
AtrLast(bars, period) ==
    IF Len(bars) < period THEN None
    ELSE Some(CHOOSE f \in {AtrAt(ranges, Len(bars), period) :
                               ranges \in {TrueRanges(bars)}} : TRUE)

----------------------------------------------------------------------------
(* rules/price_alerts.py *)

AtrFetch == 60        \* fetch_recent_bars("bars_1m", symbol, limit=60)
AtrMinBars == 20      \* len(bars) < 20: no breakout
EmaSpan == 20         \* ema(closes, span=20)
AtrPeriod == 14       \* atr(highs, lows, closes, period=14)

\* the comparison of _atr_breakout once the EMA and the ATR are there; the two
\* sides are brought to the least common denominator of e and a
BeyondBand(r, price, e, a) ==
    LET k == OrElse(r.atr_k, 1)
        direction == IF r.direction = "" THEN "above" ELSE r.direction
    IN  \E g \in {Gcd(e.d, a.d)} :
        \E dev \in {(price * e.d - e.n) * (a.d \div g)},
           band \in {k * a.n * (e.d \div g)} :
            CASE direction = "above" -> dev >= band
              [] direction = "below" -> dev <= -band
              [] OTHER -> Abs(dev) >= band

\* variant of _atr_breakout without the check of the number of bars
AtrBreakoutAnyLength(r, price, table) ==
    \E bars \in {FetchRecentBars(table, r.symbol, AtrFetch)} :
        /\ bars # <<>>
        /\ \E e \in {EmaAt([i \in DOMAIN bars |-> bars[i].close],
                            Len(bars), EmaSpan)},
              a \in {AtrLast(bars, AtrPeriod)} :
               IsSet(a) /\ BeyondBand(r, price, e, Val(a))

\* _atr_breakout
AtrBreakout(r, price, table) ==
    \E bars \in {FetchRecentBars(table, r.symbol, AtrFetch)} :
        /\ Len(bars) >= AtrMinBars
        /\ \E e \in {EmaAt([i \in DOMAIN bars |-> bars[i].close],
                            Len(bars), EmaSpan)},
              a \in {AtrLast(bars, AtrPeriod)} :
               IsSet(a) /\ BeyondBand(r, price, e, Val(a))

DefaultState ==
    [armed |-> TRUE, baseline |-> None, condition_since |-> None,
     samples |-> <<>>]

\* the state blob is JSON of booleans, numbers and a list of booleans, which
\* json.dumps/json.loads give back unchanged
LoadState(row) == IF IsSet(row) THEN Val(row) ELSE DefaultState

LatestPrice(table, symbol) ==
    LET bar == FetchLatestBar(table, symbol)
    IN  IF IsSet(bar) THEN Some(Val(bar).close) ELSE None

\* variant of _evaluate_condition with the comparisons of above and below
\* exchanged
EvaluateConditionSwapped(r, price, state) ==
    LET baseline == IF IsSet(state.baseline) THEN Val(state.baseline) ELSE price
    IN  CASE r.type = "above" -> price <= Val(r.level)
          [] r.type = "below" -> price >= Val(r.level)
          [] r.type = "pct_up" -> price * 100 >= baseline * (100 + Val(r.pct))
          [] r.type = "pct_down" -> price * 100 <= baseline * (100 - Val(r.pct))
          [] r.type = "atr_breakout" -> AtrBreakout(r, price, bars1m)

EvaluateCondition(r, price, state) ==
    LET baseline == IF IsSet(state.baseline) THEN Val(state.baseline) ELSE price
    IN  CASE r.type = "above" -> price >= Val(r.level)
          [] r.type = "below" -> price <= Val(r.level)
          [] r.type = "pct_up" -> price * 100 >= baseline * (100 + Val(r.pct))
          [] r.type = "pct_down" -> price * 100 <= baseline * (100 - Val(r.pct))
          [] r.type = "atr_breakout" -> AtrBreakout(r, price, bars1m)

\* variant of the re-arm threshold that leaves the hysteresis band out
HysteresisThresholdFlat(r, price) == OrElse(r.level, price) * 100

\* the re-arm threshold, in hundredths
HysteresisThreshold(r, price) ==
    LET level == OrElse(r.level, price)
    IN  IF Truthy(r.hysteresis_pct)
        THEN CASE r.type = "above" -> level * (100 - Val(r.hysteresis_pct))
               [] r.type = "below" -> level * (100 + Val(r.hysteresis_pct))
               [] OTHER -> level * 100
        ELSE IF Truthy(r.hysteresis)
        THEN CASE r.type = "above" -> (level - Val(r.hysteresis)) * 100
               [] r.type = "below" -> (level + Val(r.hysteresis)) * 100
               [] OTHER -> level * 100
        ELSE level * 100

\* variant of _apply_hysteresis that re-arms on every price
ApplyHysteresisAlways(r, price, state) == TRUE

\* the value of state["armed"] after _apply_hysteresis
ApplyHysteresis(r, price, state) ==
    IF state.armed THEN TRUE
    ELSE LET threshold == HysteresisThreshold(r, price)
             baseline == IF IsSet(state.baseline) THEN Val(state.baseline)
                         ELSE OrElse(r.level, price)
         IN  CASE r.type = "above" /\ price * 100 <= threshold -> TRUE
               [] r.type = "below" /\ price * 100 >= threshold -> TRUE
               [] r.type = "pct_up" -> price <= baseline
               [] r.type = "pct_down" -> price >= baseline
               [] OTHER -> state.armed

CountTrue(s) == Cardinality({i \in 1..Len(s) : s[i]})

\* samples[-total:] in Python: the last `total` items, and the whole list
\* when total is 0 (the slice [-0:] starts at index 0)
LastSlice(s, total) ==
    IF total = 0 \/ total >= Len(s) THEN s
    ELSE SubSeq(s, Len(s) - total + 1, Len(s))

\* variant of _confirm whose time mode keeps condition_since when the
\* condition is false
ConfirmKeepSince(r, condition, state, t, table5m) ==
    IF r.confirm_mode = "time" /\ condition
    THEN LET since == OrElse(state.condition_since, t)
         IN  [ok |-> t - since >= r.confirm_seconds,
              state |-> [state EXCEPT !.condition_since = Some(since)]]
    ELSE [ok |-> r.confirm_mode = "" /\ condition, state |-> state]

\* _confirm: [ok, state]
Confirm(r, condition, state, t, table5m) ==
    CASE r.confirm_mode = "" ->
            [ok |-> condition, state |-> state]
      [] r.confirm_mode = "time" ->
            IF condition
            THEN LET since == OrElse(state.condition_since, t)
                 IN  [ok |-> t - since >= r.confirm_seconds,
                      state |-> [state EXCEPT !.condition_since = Some(since)]]
            ELSE [ok |-> FALSE,
                  state |-> [state EXCEPT !.condition_since = None]]
      [] r.confirm_mode = "samples" ->
            LET appended == Append(state.samples, condition)
                total == r.confirm_samples_total
                samples == IF Len(appended) > total
                           THEN LastSlice(appended, total) ELSE appended
            IN  [ok |-> Len(samples) >= total
                        /\ CountTrue(samples) >= r.confirm_samples_pass,
                 state |-> [state EXCEPT !.samples = samples]]
      [] r.confirm_mode = "bar_close" ->
            LET bar == FetchLatestBar(table5m, r.symbol)
            IN  [ok |-> IsSet(bar)
                        /\ EvaluateCondition(r, Val(bar).close, state),
                 state |-> state]

BuildPriceEvent(r, price, t) ==
    [id |-> <<"PRICE", r.id, t>>, ts |-> t, symbol |-> r.symbol,
     source |-> "cex", exchange |-> "binance", timeframe |-> "1m",
     rule |-> CASE r.type = "above" -> "price_above"
                [] r.type = "below" -> "price_below"
                [] r.type = "pct_up" -> "price_pct_up"
                [] r.type = "pct_down" -> "price_pct_down"
                [] OTHER -> "price_atr_breakout",
     severity |-> "info", message |-> r.message,
     detail_json |-> [price |-> price, rule |-> r.type],
     created_at |-> t, delivered |-> 0]

\* variant of the loop body of scan_price_alerts whose fire keeps
\* condition_since and the samples
ScanRuleKeepProgress(r, price, row, t, table5m) ==
    LET loaded == LoadState(row)
        baselineInitialized == IsSet(loaded.baseline)
        armedNow == ApplyHysteresis(r, price, loaded)
        rearmed == ~loaded.armed /\ armedNow
        isPct == r.type \in {"pct_up", "pct_down"}
        st1 == [loaded EXCEPT !.armed = armedNow]
        st2 == IF isPct /\ (rearmed \/ ~baselineInitialized)
               THEN [st1 EXCEPT !.baseline = Some(price)] ELSE st1
        condition == EvaluateCondition(r, price, st2)
        conf == Confirm(r, condition, st2, t, table5m)
        skip == [evaluated |-> FALSE, condition |-> FALSE, fired |-> FALSE,
                 rearmed |-> rearmed, confirmed |-> st2, state |-> st2]
    IN  IF isPct /\ ~baselineInitialized THEN skip
        ELSE IF ~st2.armed THEN skip
        ELSE IF ~conf.ok
        THEN [evaluated |-> TRUE, condition |-> condition, fired |-> FALSE,
              rearmed |-> rearmed, confirmed |-> conf.state,
              state |-> conf.state]
        ELSE [evaluated |-> TRUE, condition |-> condition, fired |-> TRUE,
              rearmed |-> rearmed, confirmed |-> conf.state,
              state |-> [conf.state EXCEPT !.armed = FALSE,
                                              !.baseline = Some(price)]]

\* variant of the loop body of scan_price_alerts that keeps the stored
\* baseline of a pct rule when the rule is re-armed
ScanRuleKeepBaseline(r, price, row, t, table5m) ==
    LET loaded == LoadState(row)
        baselineInitialized == IsSet(loaded.baseline)
        armedNow == ApplyHysteresis(r, price, loaded)
        rearmed == ~loaded.armed /\ armedNow
        isPct == r.type \in {"pct_up", "pct_down"}
        st1 == [loaded EXCEPT !.armed = armedNow]
        st2 == IF isPct /\ ~baselineInitialized
               THEN [st1 EXCEPT !.baseline = Some(price)] ELSE st1
        condition == EvaluateCondition(r, price, st2)
        conf == Confirm(r, condition, st2, t, table5m)
        skip == [evaluated |-> FALSE, condition |-> FALSE, fired |-> FALSE,
                 rearmed |-> rearmed, confirmed |-> st2, state |-> st2]
    IN  IF isPct /\ ~baselineInitialized THEN skip
        ELSE IF ~st2.armed THEN skip
        ELSE IF ~conf.ok
        THEN [evaluated |-> TRUE, condition |-> condition, fired |-> FALSE,
              rearmed |-> rearmed, confirmed |-> conf.state,
              state |-> conf.state]
        ELSE [evaluated |-> TRUE, condition |-> condition, fired |-> TRUE,
              rearmed |-> rearmed, confirmed |-> conf.state,
              state |-> [armed |-> FALSE, baseline |-> Some(price),
                         condition_since |-> None, samples |-> <<>>]]

\* variant of the loop body of scan_price_alerts that goes on to evaluate a
\* pct rule on the scan that establishes its baseline
ScanRuleNoBaselineSkip(r, price, row, t, table5m) ==
    LET loaded == LoadState(row)
        baselineInitialized == IsSet(loaded.baseline)
        armedNow == ApplyHysteresis(r, price, loaded)
        rearmed == ~loaded.armed /\ armedNow
        isPct == r.type \in {"pct_up", "pct_down"}
        st1 == [loaded EXCEPT !.armed = armedNow]
        st2 == IF isPct /\ (rearmed \/ ~baselineInitialized)
               THEN [st1 EXCEPT !.baseline = Some(price)] ELSE st1
        condition == EvaluateCondition(r, price, st2)
        conf == Confirm(r, condition, st2, t, table5m)
    IN  IF ~st2.armed
        THEN [evaluated |-> FALSE, condition |-> FALSE, fired |-> FALSE,
              rearmed |-> rearmed, confirmed |-> st2, state |-> st2]
        ELSE IF ~conf.ok
        THEN [evaluated |-> TRUE, condition |-> condition, fired |-> FALSE,
              rearmed |-> rearmed, confirmed |-> conf.state,
              state |-> conf.state]
        ELSE [evaluated |-> TRUE, condition |-> condition, fired |-> TRUE,
              rearmed |-> rearmed, confirmed |-> conf.state,
              state |-> [armed |-> FALSE, baseline |-> Some(price),
                         condition_since |-> None, samples |-> <<>>]]

\* One iteration of the loop of scan_price_alerts for a rule whose symbol has
\* a price: whether the condition was evaluated, its value, whether the rule
\* fired, the state as _confirm left it and the state that is saved (every
\* path through the loop body saves).
ScanRule(r, price, row, t, table5m) ==
    LET loaded == LoadState(row)
        baselineInitialized == IsSet(loaded.baseline)
        armedNow == ApplyHysteresis(r, price, loaded)
        rearmed == ~loaded.armed /\ armedNow
        isPct == r.type \in {"pct_up", "pct_down"}
        st1 == [loaded EXCEPT !.armed = armedNow]
        st2 == IF isPct /\ (rearmed \/ ~baselineInitialized)
               THEN [st1 EXCEPT !.baseline = Some(price)] ELSE st1
        condition == EvaluateCondition(r, price, st2)
        conf == Confirm(r, condition, st2, t, table5m)
        skip == [evaluated |-> FALSE, condition |-> FALSE, fired |-> FALSE,
                 rearmed |-> rearmed, confirmed |-> st2, state |-> st2]
    IN  IF isPct /\ ~baselineInitialized THEN skip
        ELSE IF ~st2.armed THEN skip
        ELSE IF ~conf.ok
        THEN [evaluated |-> TRUE, condition |-> condition, fired |-> FALSE,
              rearmed |-> rearmed, confirmed |-> conf.state,
              state |-> conf.state]
        ELSE [evaluated |-> TRUE, condition |-> condition, fired |-> TRUE,
              rearmed |-> rearmed, confirmed |-> conf.state,
              state |-> [armed |-> FALSE, baseline |-> Some(price),
                         condition_since |-> None, samples |-> <<>>]]

----------------------------------------------------------------------------
(* The price-alert evaluator as a state machine: one rule, one symbol *)

Symbol == "BTCUSDT"

\* a 1-minute candle as the connectors build it, its numbers drawn from px
MakeBar(source, exchange, symbol, closeTs, px) ==
    [source |-> source, exchange |-> exchange, chain |-> Some(""), symbol |-> symbol,
     base |-> "BTC", quote |-> "USDT", open_ts |-> closeTs - 60,
     close_ts |-> closeTs, open |-> px, high |-> px + 1,
     low |-> px - 1, close |-> px, volume_base |-> 1,
     volume_quote |-> px, notional_usd |-> px, trades |-> 1]

Rule(type, hysteresis, hysteresisPct, mode, total, pass) ==
    [id |-> "rule1", symbol |-> Symbol, type |-> type,
     level |-> IF type \in {"above", "below"} THEN Some(Level) ELSE None,
     pct |-> IF type \in {"pct_up", "pct_down"} THEN Some(50) ELSE None,
     hysteresis |-> hysteresis, hysteresis_pct |-> hysteresisPct,
     confirm_mode |-> mode, confirm_seconds |-> ConfirmSeconds,
     confirm_samples_total |-> total, confirm_samples_pass |-> pass,
     confirm_timeframe |-> "5m", message |-> "alert", enabled |-> TRUE,
     atr_k |-> IF type = "atr_breakout" THEN Some(1) ELSE None,
     direction |-> ""]

SampleWindows ==
    {<<"samples", total, pass>> : total \in 0..MaxTotal, pass \in 0..MaxTotal}

Confirmations ==
    {<<mode, 0, 0>> : mode \in {"", "time", "bar_close"}} \cup SampleWindows

\* 'above' rules with an absolute hysteresis, under every confirmation
HysteresisRules == {Rule("above", Some(1), None, c[1], c[2], c[3]) : c \in Confirmations}

\* rules confirmed by samples(total, pass)
SamplesRules ==
    {Rule(ty, Some(1), None, c[1], c[2], c[3]) :
        ty \in {"above", "below"}, c \in SampleWindows}

\* rules confirmed by time(ConfirmSeconds)
TimeRules ==
    {Rule(ty, hy, None, "time", 0, 0) :
        ty \in {"above", "below"}, hy \in {None, Some(1)}}

NoScan ==
    [kind |-> "none", price |-> 0, evaluated |-> FALSE, condition |-> FALSE,
     fired |-> FALSE, refire |-> FALSE, since |-> None,
     dipStrict |-> FALSE, dipIncl |-> FALSE, riseStrict |-> FALSE,
     streak |-> None, log |-> <<>>,
     hadBaseline |-> FALSE, armedBefore |-> TRUE, armedAfter |-> TRUE]

NoTrack ==
    [firedBefore |-> FALSE, dipStrict |-> FALSE, dipIncl |-> FALSE,
     riseStrict |-> FALSE, streak |-> None, log |-> <<>>]

NoRollup ==
    [kind |-> "none", since |-> None, aggregated |-> 0, skipped |-> 0,
     written |-> {}, grouping |-> {}]

NoSettings == [mode |-> "none"]

NoRun == [kind |-> "none"]

\* lastFire: cooldown key -> time of the latest fire; created: event id -> the
\* row as its first insert left it; delivered: ids marked as delivered;
\* lastInsert: event id -> payload of the latest insert_event call
NoHistory ==
    [lastFire |-> <<>>, created |-> <<>>, delivered |-> {}, lastInsert |-> <<>>]

NoTasks ==
    [rules |-> [at |-> "idle", step |-> 0, until |-> 0],
     rollup |-> [at |-> "idle", step |-> 0, until |-> 0]]

NoNotifier == [constructed |-> FALSE]

NoCall == [kind |-> "none"]

\* the service loop is not started, no notifier client is constructed and
\* the connectors have not been called
ServiceIdle ==
    /\ tasks = NoTasks
    /\ threads = {}
    /\ notifier = NoNotifier
    /\ notifierState = None
    /\ played = <<>>
    /\ failStates = None
    /\ lastCloseTs = None
    /\ lastCall = NoCall

InitPrice(rules) ==
    /\ bars1m = {}
    /\ bars5m = {}
    /\ bars15m = {}
    /\ ServiceIdle
    /\ events = {}
    /\ kv = None
    /\ rule \in rules
    /\ now = 1
    /\ lastScan = NoScan
    /\ track = NoTrack
    /\ lastRollup = NoRollup
    /\ cooldown = {}
    /\ settings = NoSettings
    /\ lastRun = NoRun
    /\ history = NoHistory
    /\ batch = {}

\* the clock advances
Tick ==
    /\ now < MaxTime
    /\ now' = now + 1
    /\ lastScan' = NoScan
    /\ UNCHANGED <<bars1m, bars5m, events, kv, rule, track, beyondPrice>>

\* ingestion writes the 1-minute candle of the symbol (upsert_bar)
Ingest1m ==
    \E px \in 1..MaxPrice :
        /\ bars1m' = UpsertBar(bars1m, MakeBar("cex", "binance", Symbol, 60, px))
        /\ lastScan' = NoScan
        /\ UNCHANGED <<bars5m, events, kv, rule, now, track, beyondPrice>>

\* the rollup writes the 5-minute candle that bar_close confirmation reads
Ingest5m ==
    \E px \in 1..MaxPrice :
        /\ rule.confirm_mode = "bar_close"
        /\ bars5m' = UpsertBar(bars5m, MakeBar("cex", "binance", Symbol, 300, px))
        /\ lastScan' = NoScan
        /\ UNCHANGED <<bars1m, events, kv, rule, now, track, beyondPrice>>

\* an 'above' rule with a level and an absolute hysteresis h > 0
HasAbsHysteresis(r) ==
    r.type = "above" /\ IsSet(r.level) /\ Truthy(r.hysteresis)
    /\ ~Truthy(r.hysteresis_pct)

TrimTo(s, k) == IF Len(s) > k THEN SubSeq(s, Len(s) - k + 1, Len(s)) ELSE s

\* scan_price_alerts(now).  lastScan and track only observe: lastScan is what
\* this scan did, track is what the scans since the rule's last fire saw.
ScanPriceAlerts ==
    LET price == LatestPrice(bars1m, rule.symbol)
    IN  /\ Len(LoadState(kv).samples) < MaxSamples
        /\ rule.enabled
        /\ IF ~IsSet(price)
           THEN /\ lastScan' = [NoScan EXCEPT !.kind = "noprice"]
                /\ UNCHANGED <<kv, events, track>>
           ELSE LET px == Val(price)
                    res == ScanRule(rule, px, kv, now, bars5m)
                    abs == HasAbsHysteresis(rule)
                    low == IF abs THEN Val(rule.level) - Val(rule.hysteresis)
                           ELSE 0
                    streak == IF rule.confirm_mode # "time" \/ ~res.evaluated
                              THEN track.streak
                              ELSE IF ~res.condition THEN None
                              ELSE IF IsSet(track.streak) THEN track.streak
                              ELSE Some(now)
                    log == IF rule.confirm_mode = "samples" /\ res.evaluated
                           THEN Append(track.log, res.condition)
                           ELSE track.log
                IN  /\ kv' = Some(res.state)
                    /\ events' = IF res.fired
                                 THEN InsertEvent(events,
                                          BuildPriceEvent(rule, px, now))
                                 ELSE events
                    /\ lastScan' =
                         [kind |-> "scan", price |-> px,
                          evaluated |-> res.evaluated,
                          condition |-> res.condition, fired |-> res.fired,
                          refire |-> res.fired /\ track.firedBefore,
                          since |-> res.confirmed.condition_since,
                          dipStrict |-> track.dipStrict,
                          dipIncl |-> track.dipIncl
                              \/ (abs /\ track.firedBefore /\ px <= low),
                          riseStrict |-> track.riseStrict,
                          streak |-> streak, log |-> log,
                          hadBaseline |-> IsSet(LoadState(kv).baseline),
                          armedBefore |-> LoadState(kv).armed,
                          armedAfter |-> res.state.armed]
                    /\ track' =
                         IF res.fired
                         THEN [NoTrack EXCEPT !.firedBefore = TRUE]
                         ELSE [firedBefore |-> track.firedBefore,
                               dipStrict |-> track.dipStrict
                                   \/ (abs /\ track.firedBefore /\ px < low),
                               dipIncl |-> track.dipIncl
                                   \/ (abs /\ track.firedBefore /\ px <= low),
                               riseStrict |-> track.riseStrict
                                   \/ (abs /\ track.dipStrict
                                       /\ px > Val(rule.level)),
                               streak |-> streak,
                               log |-> TrimTo(log, MaxSamples)]
        /\ UNCHANGED <<bars1m, bars5m, rule, now, beyondPrice>>

NextPrice == Tick \/ Ingest1m \/ Ingest5m \/ ScanPriceAlerts

\* without the 5-minute table, which only bar_close confirmation reads
NextLive == Tick \/ Ingest1m \/ ScanPriceAlerts

InitHysteresis == InitPrice(HysteresisRules)
SpecHysteresis == InitHysteresis /\ [][NextPrice]_vars

InitSamples == InitPrice(SamplesRules)
SpecSamples == InitSamples /\ [][NextLive]_vars

InitTime == InitPrice(TimeRules)
SpecTime == InitTime /\ [][NextLive]_vars

\* pct rules under each kind of confirmation
PctRules ==
    {Rule(ty, None, None, c[1], c[2], c[3]) :
        ty \in {"pct_up", "pct_down"},
        c \in {<<"", 0, 0>>, <<"time", 0, 0>>, <<"bar_close", 0, 0>>,
               <<"samples", 1, 0>>, <<"samples", MaxTotal, 1>>}}

\* no stored state, or the state an earlier scan saved when the rule's row
\* was of type above or below: no baseline in it
InitPct ==
    /\ bars1m = {}
    /\ bars5m = {}
    /\ bars15m = {}
    /\ ServiceIdle
    /\ events = {}
    /\ kv \in {None, Some(DefaultState)}
    /\ rule \in PctRules
    /\ now = 1
    /\ lastScan = NoScan
    /\ track = NoTrack
    /\ lastRollup = NoRollup
    /\ cooldown = {}
    /\ settings = NoSettings
    /\ lastRun = NoRun
    /\ history = NoHistory
    /\ batch = {}

SpecPct == InitPct /\ [][NextPrice]_vars

\* rows that upsert_rule stored without the level their type needs, or with
\* a type the evaluator does not know.  list_rules orders by symbol, level:
\* the row without a level comes first, the row with level Level + 1 comes
\* after the rule of level Level
BrokenRules ==
    {[Rule("above", None, None, "", 0, 0) EXCEPT !.id = "nolevel", !.level = None],
     [Rule("above", None, None, "", 0, 0) EXCEPT
         !.id = "notype", !.type = "cross", !.level = Some(Level + 1)]}

\* ORDER BY symbol, level among rows of one symbol: NULL sorts first
ListedBefore(a, b) ==
    /\ a.symbol = b.symbol
    /\ \/ ~IsSet(a.level) /\ IsSet(b.level)
       \/ IsSet(a.level) /\ IsSet(b.level) /\ Val(a.level) < Val(b.level)

\* _evaluate_condition raises on a row that has no stored state: float(None)
\* for a missing level or pct, ValueError for an unsupported type
Raises(r) ==
    \/ r.type \notin {"above", "below", "pct_up", "pct_down", "atr_breakout"}
    \/ r.type \in {"above", "below"} /\ ~IsSet(r.level)

\* scan_price_alerts(now) over the rule and the other rows, in the order of
\* list_rules: an exception leaves the loop, the rows after it are not
\* evaluated; what the rows before it wrote stays written
ScanBatch ==
    IF /\ IsSet(LatestPrice(bars1m, rule.symbol))
       /\ \E b \in batch : b.enabled /\ Raises(b) /\ ListedBefore(b, rule)
    THEN /\ lastScan' = [NoScan EXCEPT !.kind = "aborted"]
         /\ UNCHANGED <<bars1m, bars5m, events, kv, rule, now, track,
                        beyondPrice>>
    ELSE ScanPriceAlerts

InitBatch ==
    /\ bars1m = {}
    /\ bars5m = {}
    /\ bars15m = {}
    /\ ServiceIdle
    /\ events = {}
    /\ kv = None
    /\ rule \in HysteresisRules
    /\ batch \in SUBSET BrokenRules
    /\ now = 1
    /\ lastScan = NoScan
    /\ track = NoTrack
    /\ lastRollup = NoRollup
    /\ cooldown = {}
    /\ settings = NoSettings
    /\ lastRun = NoRun
    /\ history = NoHistory

NextBatch == Tick \/ Ingest1m \/ ScanBatch

SpecBatch == InitBatch /\ [][NextBatch]_vars

\* rules of every type, with and without a hysteresis
ArmedRules ==
    {Rule(ty, hy[1], hy[2], mode, 0, 0) :
        ty \in {"above", "below", "pct_up", "pct_down"},
        hy \in {<<None, None>>, <<Some(1), None>>, <<None, Some(50)>>},
        mode \in {"", "time"}}

\* upsert_rule: the row of the rule is rewritten with other parameters
UpsertRule ==
    \E r \in ArmedRules :
        /\ r.type = rule.type
        /\ r # rule
        /\ rule' = r
        /\ lastScan' = NoScan
        /\ track' = NoTrack
        /\ UNCHANGED <<bars1m, bars5m, events, kv, now, beyondPrice>>

InitArmed == InitPrice(ArmedRules)

NextArmed == Tick \/ Ingest1m \/ ScanPriceAlerts \/ UpsertRule

SpecArmed == InitArmed /\ [][NextArmed]_vars

\* rows for upsert_rule: the rows of BrokenRules and a row whose confirmation
\* mode the evaluator does not know, listed after them
RuleRows ==
    BrokenRules \cup
    {[Rule("above", None, None, "votes", 0, 0) EXCEPT
         !.id = "nomode", !.level = Some(Level + 2)]}

\* upsert_rule(row): only the id is required; the row replaces the row of
\* the same id
UpsertRuleRow ==
    \E row \in RuleRows :
        /\ batch' = {b \in batch : b.id # row.id} \cup {row}
        /\ lastScan' = NoScan
        /\ UNCHANGED <<bars1m, bars5m, bars15m, serviceVars, events, kv, rule, now, track,
                       lastRollup, cooldown, settings, lastRun, history>>

InitConfigure == InitPrice(HysteresisRules)

NextConfigure == Tick \/ Ingest1m \/ UpsertRuleRow \/ ScanBatch

SpecConfigure == InitConfigure /\ [][NextConfigure]_vars

\* PriceAlertType, ConfirmMode, PriceAlertRuleConfig.__post_init__ and
\* ConfirmConfig.__post_init__: what the configuration loader accepts
WellFormed(r) ==
    /\ r.type \in {"above", "below", "pct_up", "pct_down", "atr_breakout"}
    /\ r.type \in {"above", "below"} => IsSet(r.level)
    /\ r.type \in {"pct_up", "pct_down"} => IsSet(r.pct)
    /\ r.type = "atr_breakout" => IsSet(r.atr_k)
    /\ r.confirm_mode \in {"", "time", "samples", "bar_close"}

\* the loop of the scan gets to the row: no enabled row listed before it raises
ReachedByScan(b) ==
    ~\E a \in batch : a.enabled /\ Raises(a) /\ ListedBefore(a, b)

----------------------------------------------------------------------------
(* Properties of the price-alert evaluator *)

\* C19: every rule that a scan evaluates has a known kind, a known
\* confirmation mode and the parameters its kind needs; a rule lacking them
\* is rejected when it is configured and is in no scan.
C19_OnlyValidatedRules ==
    /\ \A b \in batch : WellFormed(b)
    /\ (lastScan.kind \in {"scan", "aborted"}) =>
           \A b \in batch : (b.enabled /\ ReachedByScan(b)) => WellFormed(b)

\* a scan that evaluated the rule and then a stored row of unknown kind
C19_Reached ==
    /\ lastScan.kind = "scan"
    /\ \E b \in batch : b.enabled /\ ReachedByScan(b) /\ ~WellFormed(b)

\* C14: a failure on one rule does not abort the scan: in a scan that finds a
\* price, the rule is evaluated and its state is written whatever the other
\* rows of the batch do.
C14_BatchIsolated ==
    (lastScan.kind # "none" /\ IsSet(LatestPrice(bars1m, rule.symbol)))
        => lastScan.kind = "scan" /\ IsSet(kv)

\* C12: the scan that finds no baseline in the stored state of a pct_up or
\* pct_down rule emits no event for the rule; it stores the price as baseline.
C12_BaselineScanSilent ==
    (lastScan.kind = "scan" /\ rule.type \in {"pct_up", "pct_down"}
        /\ ~lastScan.hadBaseline)
        => /\ ~lastScan.fired
           /\ \A e \in events : e.ts # now
           /\ Val(kv).baseline = Some(lastScan.price)

\* a baseline scan under a confirmation that passes by itself: samples(1, 0)
C12_Witness ==
    /\ lastScan.kind = "scan"
    /\ rule.type = "pct_up"
    /\ rule.confirm_mode = "samples"
    /\ rule.confirm_samples_pass = 0
    /\ ~lastScan.hadBaseline
    /\ Val(kv).armed

\* the re-arm comparison of the rule on a price, against the stored baseline
RearmComparison(r, price, baseline) ==
    CASE r.type = "above" ->
            IF Truthy(r.hysteresis_pct)
            THEN price * 100 <= Val(r.level) * (100 - Val(r.hysteresis_pct))
            ELSE IF Truthy(r.hysteresis)
            THEN price <= Val(r.level) - Val(r.hysteresis)
            ELSE price <= Val(r.level)
      [] r.type = "below" ->
            IF Truthy(r.hysteresis_pct)
            THEN price * 100 >= Val(r.level) * (100 + Val(r.hysteresis_pct))
            ELSE IF Truthy(r.hysteresis)
            THEN price >= Val(r.level) + Val(r.hysteresis)
            ELSE price >= Val(r.level)
      [] r.type = "pct_up" -> IsSet(baseline) /\ price <= Val(baseline)
      [] r.type = "pct_down" -> IsSet(baseline) /\ price >= Val(baseline)

\* C13: the persisted armed flag goes from true to false only in a scan that
\* inserts an event for the rule, and from false to true only in a scan
\* whose price satisfies the re-arm comparison; no other step changes it.
C13_ArmedTransitions ==
    [][/\ (LoadState(kv).armed /\ ~LoadState(kv').armed)
            => /\ lastScan'.kind = "scan"
               /\ lastScan'.fired
               /\ \E e \in events' :
                     e.id = <<"PRICE", rule.id, now>> /\ e.created_at = now
       /\ (~LoadState(kv).armed /\ LoadState(kv').armed)
            => /\ lastScan'.kind = "scan"
               /\ RearmComparison(rule, lastScan'.price, LoadState(kv).baseline)]_vars

\* a scan that re-armed the rule and did not fire
C13_Witness ==
    /\ lastScan.kind = "scan"
    /\ ~lastScan.armedBefore
    /\ lastScan.armedAfter
    /\ ~lastScan.fired

\* C1 as stated: an 'above' rule with level L and absolute hysteresis h > 0
\* that has fired fires again only after the price was below L - h on a scan
\* since that fire and above L on a later scan (the firing scan counts as a
\* later scan).
C1_StrictBand ==
    (HasAbsHysteresis(rule) /\ lastScan.refire)
        => \/ lastScan.riseStrict
           \/ lastScan.dipStrict /\ lastScan.price > Val(rule.level)

\* C1 amended: an 'above' rule with level L and absolute hysteresis h > 0 that
\* has fired fires again only once a scan since that fire saw the price at or
\* below L - h; with no confirmation or time confirmation the price is at or
\* above L on the scan that fires again, which is then a later scan than the
\* one that saw the price at or below L - h.
C1_InclusiveBand ==
    (HasAbsHysteresis(rule) /\ lastScan.refire)
        => /\ lastScan.dipIncl
           /\ rule.confirm_mode \in {"", "time"}
                 => lastScan.price >= Val(rule.level)

\* a time-confirmed rule fires a second time, after the price came back up
C1_Witness ==
    /\ HasAbsHysteresis(rule)
    /\ lastScan.refire
    /\ rule.confirm_mode = "time"
    /\ lastScan.price >= Val(rule.level)

\* the last `total` entries of a log of evaluations
TrailingWindow(log, total) ==
    [i \in 1..(IF total <= Len(log) THEN total ELSE Len(log)) |->
        log[Len(log) - (IF total <= Len(log) THEN total ELSE Len(log)) + i]]

WindowPasses(log, total, pass) ==
    /\ Len(log) >= total
    /\ CountTrue(TrailingWindow(log, total)) >= pass

\* C6: an armed rule under samples(total, pass) fires on a scan exactly when
\* the evaluations since its last fire number at least `total` and at least
\* `pass` of the last `total` of them are true.
C6_SamplesWindow ==
    (rule.confirm_mode = "samples" /\ lastScan.evaluated)
        => (lastScan.fired <=>
                WindowPasses(lastScan.log, rule.confirm_samples_total,
                             rule.confirm_samples_pass))

\* the same equivalence, for the rules whose window holds at least one sample
PositiveWindowLemma ==
    (rule.confirm_mode = "samples" /\ lastScan.evaluated
     /\ rule.confirm_samples_total >= 1)
        => (lastScan.fired <=>
                WindowPasses(lastScan.log, rule.confirm_samples_total,
                             rule.confirm_samples_pass))

\* C7: under time(N) a rule fires at t only if condition_since = s was set,
\* every evaluation from the scan at s through the scan at t was true and
\* t - s >= N; an evaluation that is false leaves condition_since unset.
C7_TimeConfirm ==
    (rule.confirm_mode = "time" /\ lastScan.kind = "scan")
        => /\ lastScan.fired
                 => /\ IsSet(lastScan.since)
                    /\ IsSet(lastScan.streak)
                    /\ Val(lastScan.streak) <= Val(lastScan.since)
                    /\ now - Val(lastScan.since) >= rule.confirm_seconds
           /\ (lastScan.evaluated /\ ~lastScan.condition)
                 => ~IsSet(LoadState(kv).condition_since)

\* a time-confirmed rule fires on a scan later than the one that set
\* condition_since
C7_Witness ==
    /\ rule.confirm_mode = "time"
    /\ lastScan.fired
    /\ IsSet(lastScan.since)
    /\ Val(lastScan.since) < now

----------------------------------------------------------------------------
(* aggregator/rollup.py *)

\* variant of _bucket_close_ts that rounds close_ts down before stepping to
\* the next boundary
BucketCloseTsNext(close_ts, window) ==
    ((close_ts \div (window * 60)) + 1) * window * 60

BucketCloseTs(close_ts, window) ==
    (((close_ts - 1) \div (window * 60)) + 1) * window * 60

\* _load_bars
LoadBars(table, symbol, since_ts) ==
    SortBars({row \in table :
                 /\ row.symbol = symbol
                 /\ IsSet(since_ts) => row.close_ts >= Val(since_ts)})

\* _fetch_symbols
FetchSymbols(table, since_ts) ==
    {row.symbol : row \in {r \in table :
                              IsSet(since_ts) => r.close_ts >= Val(since_ts)}}

RECURSIVE SumOver(_, _)
SumOver(bars, column) ==
    IF bars = <<>> THEN 0
    ELSE bars[1][column] + SumOver(Tail(bars), column)

MaxOver(bars, column) ==
    CHOOSE v \in {bars[i][column] : i \in DOMAIN bars} :
        \A i \in DOMAIN bars : bars[i][column] <= v

MinOver(bars, column) ==
    CHOOSE v \in {bars[i][column] : i \in DOMAIN bars} :
        \A i \in DOMAIN bars : bars[i][column] >= v

\* variant of _aggregate_bucket that takes open from the last bar and high
\* from the first
AggregateBucketSwapped(symbol, bars) ==
    LET first == bars[1]
        last == bars[Len(bars)]
    IN  [source |-> first.source, exchange |-> first.exchange,
         chain |-> first.chain, symbol |-> symbol, base |-> first.base,
         quote |-> first.quote, open_ts |-> first.open_ts,
         close_ts |-> last.close_ts, open |-> last.open,
         high |-> first.high, low |-> MinOver(bars, "low"),
         close |-> last.close,
         volume_base |-> SumOver(bars, "volume_base"),
         volume_quote |-> SumOver(bars, "volume_quote"),
         notional_usd |-> SumOver(bars, "notional_usd"),
         trades |-> SumOver(bars, "trades")]

\* _aggregate_bucket on bars that come ordered by close_ts (the sort is stable)
AggregateBucket(symbol, bars) ==
    LET first == bars[1]
        last == bars[Len(bars)]
    IN  [source |-> first.source, exchange |-> first.exchange,
         chain |-> first.chain, symbol |-> symbol, base |-> first.base,
         quote |-> first.quote, open_ts |-> first.open_ts,
         close_ts |-> last.close_ts, open |-> first.open,
         high |-> MaxOver(bars, "high"), low |-> MinOver(bars, "low"),
         close |-> last.close,
         volume_base |-> SumOver(bars, "volume_base"),
         volume_quote |-> SumOver(bars, "volume_quote"),
         notional_usd |-> SumOver(bars, "notional_usd"),
         trades |-> SumOver(bars, "trades")]

\* the keys of `buckets` for one symbol
BucketKeys(rows, window) ==
    {BucketCloseTs(rows[i].close_ts, window) : i \in DOMAIN rows}

BucketBars(rows, window, key) ==
    LET InBucket(row) == BucketCloseTs(row.close_ts, window) = key
    IN  SelectSeq(rows, InBucket)

\* the candle rollup_bars writes for one bucket
BucketCandle(symbol, rows, window, key) ==
    [AggregateBucket(symbol, BucketBars(rows, window, key))
        EXCEPT !.close_ts = key]

\* a bucket none of whose bars closes at the bucket boundary
Incomplete(rows, window, key) ==
    \A i \in DOMAIN rows :
        BucketCloseTs(rows[i].close_ts, window) = key => rows[i].close_ts # key

RECURSIVE WriteBuckets(_, _, _, _, _)
\* the loop over buckets.items(), in insertion order: ascending bucket key
WriteBuckets(dst, symbol, rows, window, keys) ==
    IF keys = {} THEN dst
    ELSE LET key == CHOOSE k \in keys : \A o \in keys : k <= o
         IN  WriteBuckets(UpsertBar(dst, BucketCandle(symbol, rows, window, key)),
                          symbol, rows, window, keys \ {key})

\* the rowid at which a symbol first appears: the order of SELECT DISTINCT
FirstBid(table, symbol) ==
    CHOOSE b \in {r.bid : r \in SymbolRows(table, symbol)} :
        \A r \in SymbolRows(table, symbol) : b <= r.bid

RECURSIVE RollupSymbols(_, _, _, _, _)
RollupSymbols(src, dst, window, since_ts, symbols) ==
    IF symbols = {} THEN dst
    ELSE LET symbol == CHOOSE x \in symbols :
                 \A o \in symbols : FirstBid(src, x) <= FirstBid(src, o)
             rows == LoadBars(src, symbol, since_ts)
         IN  RollupSymbols(
                 src,
                 WriteBuckets(dst, symbol, rows, window,
                              BucketKeys(rows, window)),
                 window, since_ts, symbols \ {symbol})

\* rollup_bars(src_table, dst_table, window, since_ts): the destination table
RollupBars(src, dst, window, since_ts) ==
    RollupSymbols(src, dst, window, since_ts, FetchSymbols(src, since_ts))

\* the candles one run hands to upsert_bar
RollupWritten(src, window, since_ts) ==
    UNION {LET rows == LoadBars(src, symbol, since_ts)
           IN  {BucketCandle(symbol, rows, window, key) :
                   key \in BucketKeys(rows, window)} :
           symbol \in FetchSymbols(src, since_ts)}

\* buckets.setdefault(bucket_key, []).append(row): which bucket key each
\* loaded source candle is put under
RollupGrouping(src, window, since_ts) ==
    UNION {LET rows == LoadBars(src, symbol, since_ts)
           IN  {[symbol |-> symbol, close_ts |-> rows[i].close_ts,
                 key |-> BucketCloseTs(rows[i].close_ts, window)] :
                   i \in DOMAIN rows} :
           symbol \in FetchSymbols(src, since_ts)}

\* the (symbol, bucket) pairs that count as skipped
SkippedBuckets(src, window, since_ts) ==
    UNION {LET rows == LoadBars(src, symbol, since_ts)
           IN  {<<symbol, key>> :
                   key \in {k \in BucketKeys(rows, window) :
                               Incomplete(rows, window, k)}} :
           symbol \in FetchSymbols(src, since_ts)}

\* variant of RollupStats that leaves the incomplete buckets out of
\* `aggregated`
RollupStatsComplete(src, window, since_ts) ==
    [aggregated |-> Cardinality(RollupWritten(src, window, since_ts))
                        - Cardinality(SkippedBuckets(src, window, since_ts)),
     skipped |-> Cardinality(SkippedBuckets(src, window, since_ts))]

\* RollupStats
RollupStatsOf(src, window, since_ts) ==
    [aggregated |-> Cardinality(RollupWritten(src, window, since_ts)),
     skipped |-> Cardinality(SkippedBuckets(src, window, since_ts))]

----------------------------------------------------------------------------
(* The rollup as a state machine: candles of one symbol arrive from two      *)
(* connectors in any order, interleaved with rollup runs                     *)

Connectors == {<<"cex", "binance">>, <<"dex", "pancake">>}
CloseTimes == {60 * i : i \in 1..MaxSlot}
CandlePrices == {1, MaxPrice}
\* since_ts: the close of the first bucket, which cuts that bucket, or the
\* minute after it
SinceChoices == {Some(60 * Window), Some(60 * (Window + 1))}

beyondRollup ==
    <<bars15m, serviceVars, events, kv, rule, batch, now, lastScan, track, cooldown, settings,
      lastRun, history>>

InitRollup ==
    /\ bars1m = {}
    /\ bars5m = {}
    /\ bars15m = {}
    /\ ServiceIdle
    /\ events = {}
    /\ kv = None
    /\ rule = Rule("above", None, None, "", 0, 0)
    /\ now = 1
    /\ lastScan = NoScan
    /\ track = NoTrack
    /\ lastRollup = NoRollup
    /\ cooldown = {}
    /\ settings = NoSettings
    /\ lastRun = NoRun
    /\ history = NoHistory
    /\ batch = {}

\* a connector writes a 1-minute candle; writing a close time again overwrites
IngestCandle ==
    \E c \in Connectors, t \in CloseTimes, px \in CandlePrices :
        LET bar == MakeBar(c[1], c[2], Symbol, t, px)
        IN  /\ \/ Cardinality(bars1m) < MaxBars
               \/ \E row \in bars1m : \A k \in BarKey : row[k] = bar[k]
            /\ bars1m' = UpsertBar(bars1m, bar)
            /\ lastRollup' = NoRollup
            /\ UNCHANGED <<bars5m, beyondRollup>>

\* rollup_bars("bars_1m", dst, Window, since_ts); bars5m stands for dst
RollupRun(since_ts) ==
    \E stats \in {RollupStatsOf(bars1m, Window, since_ts)} :
        /\ bars5m' = RollupBars(bars1m, bars5m, Window, since_ts)
        /\ lastRollup' =
             [kind |-> "run", since |-> since_ts,
              aggregated |-> stats.aggregated, skipped |-> stats.skipped,
              written |-> RollupWritten(bars1m, Window, since_ts),
              grouping |-> RollupGrouping(bars1m, Window, since_ts)]
        /\ UNCHANGED <<bars1m, beyondRollup>>

\* the scheduled run: no since_ts
RollupAll == RollupRun(None)

\* a run from the command line with --since
RollupSince == \E since_ts \in SinceChoices : RollupRun(since_ts)

NextRollup == IngestCandle \/ RollupAll \/ RollupSince

SpecRollup == InitRollup /\ [][NextRollup]_vars

\* arrivals interleaved with scheduled runs only
NextArrivals == IngestCandle \/ RollupAll

SpecArrivals == InitRollup /\ [][NextArrivals]_vars

----------------------------------------------------------------------------
(* The rollup over a complete series: n * Window consecutive candles of one *)
(* connector, from one aligned boundary + 60 to a later aligned boundary     *)

RECURSIVE InsertSeries(_, _, _, _, _)
\* the candles closing at start + 60, ..., start + 60 * count, written in order
InsertSeries(table, c, start, prices, count) ==
    IF count = 0 THEN table
    ELSE UpsertBar(InsertSeries(table, c, start, prices, count - 1),
                   MakeBar(c[1], c[2], Symbol, start + 60 * count,
                           prices[count]))

SeriesTables ==
    UNION {{InsertSeries({}, c, first * Window * 60, prices, n * Window) :
               prices \in [1..(n * Window) -> CandlePrices]} :
           c \in Connectors, first \in 0..1, n \in 1..MaxBuckets}

InitSeries ==
    /\ bars1m \in SeriesTables
    /\ bars5m = {}
    /\ bars15m = {}
    /\ ServiceIdle
    /\ events = {}
    /\ kv = None
    /\ rule = Rule("above", None, None, "", 0, 0)
    /\ now = 1
    /\ lastScan = NoScan
    /\ track = NoTrack
    /\ lastRollup = NoRollup
    /\ cooldown = {}
    /\ settings = NoSettings
    /\ lastRun = NoRun
    /\ history = NoHistory
    /\ batch = {}

NextSeries == RollupAll \/ RollupSince

SpecSeries == InitSeries /\ [][NextSeries]_vars

----------------------------------------------------------------------------
(* Properties of the rollup *)

\* the source candles of the bucket that closes at key
Members(key) ==
    {r \in bars1m :
        r.symbol = Symbol /\ key - Window * 60 < r.close_ts /\ r.close_ts <= key}

RECURSIVE SumOf(_, _)
SumOf(rows, column) ==
    IF rows = {} THEN 0
    ELSE LET r == CHOOSE x \in rows : TRUE
         IN  r[column] + SumOf(rows \ {r}, column)

\* candle is the aggregate of members: open of an earliest member, close of
\* a latest one, the extremes of high and low, the sums of the volumes
IsAggregateOf(candle, members) ==
    /\ \E r \in members :
          /\ \A o \in members : r.close_ts <= o.close_ts
          /\ candle.open = r.open
    /\ \E r \in members :
          /\ \A o \in members : o.close_ts <= r.close_ts
          /\ candle.close = r.close
    /\ \E r \in members : candle.high = r.high
    /\ \A r \in members : r.high <= candle.high
    /\ \E r \in members : candle.low = r.low
    /\ \A r \in members : candle.low <= r.low
    /\ candle.volume_base = SumOf(members, "volume_base")
    /\ candle.volume_quote = SumOf(members, "volume_quote")
    /\ candle.notional_usd = SumOf(members, "notional_usd")
    /\ candle.trades = SumOf(members, "trades")

\* the close times present in bars_1m
SourceCloses == {r.close_ts : r \in bars1m}

\* the buckets that hold a source candle
SourceBuckets ==
    {key \in {Window * 60 * k : k \in 1..(MaxSlot + MaxBuckets + 1)} :
        Members(key) # {}}

\* bars_1m is n * Window candles with consecutive close times that start one
\* minute after an aligned boundary and end on one
IsSeries(n) ==
    /\ n >= 1
    /\ Cardinality(bars1m) = n * Window
    /\ \E first \in 0..(MaxSlot + 1) :
          SourceCloses = {first * Window * 60 + 60 * i : i \in 1..(n * Window)}

C9_SeriesBuckets ==
    \A n \in 1..(MaxBuckets + 1) :
        (lastRollup.kind = "run" /\ ~IsSet(lastRollup.since) /\ IsSeries(n))
            => /\ Cardinality(lastRollup.written) = n
               /\ lastRollup.aggregated = n
               /\ \A key \in SourceBuckets :
                     /\ Cardinality(Members(key)) = Window
                     /\ \E p \in lastRollup.written :
                           /\ p.close_ts = key
                           /\ IsAggregateOf(p, Members(key))
                           /\ \E d \in bars5m :
                                 \A col \in DOMAIN p : d[col] = p[col]

\* two buckets are written, one of them from candles of different prices
C9_Witness ==
    /\ lastRollup.kind = "run"
    /\ ~IsSet(lastRollup.since)
    /\ IsSeries(2)
    /\ \E p \in lastRollup.written : p.open # p.close

\* C11: every candle a rollup run writes closes at a multiple of
\* Window * 60, and that close is the smallest such multiple that is >= the
\* close of each source candle grouped under it; a source candle closing on a
\* boundary is grouped under that boundary.
C11_BucketBoundary ==
    lastRollup.kind = "run" =>
        /\ \A p \in lastRollup.written :
              /\ p.close_ts % (Window * 60) = 0
              /\ \E g \in lastRollup.grouping :
                    g.symbol = p.symbol /\ g.key = p.close_ts
              /\ \E d \in bars5m :
                    \A col \in BarKey : d[col] = p[col]
        /\ \A g \in lastRollup.grouping :
              /\ g.key % (Window * 60) = 0
              /\ g.key >= g.close_ts
              /\ g.key - Window * 60 < g.close_ts
              /\ g.close_ts % (Window * 60) = 0 => g.key = g.close_ts
              /\ \E p \in lastRollup.written :
                    p.symbol = g.symbol /\ p.close_ts = g.key

\* a bucket that groups the candle closing on its boundary with an earlier one
C11_Witness ==
    /\ lastRollup.kind = "run"
    /\ \E g, h \in lastRollup.grouping :
          /\ g.key = h.key
          /\ g.close_ts = g.key
          /\ h.close_ts < h.key

\* C10: after a rollup run without since_ts, every destination candle of a
\* bucket that holds source candles is the aggregate of all of the bucket's
\* source candles, and the bucket has a destination candle.
C10_Converges ==
    (lastRollup.kind = "run" /\ ~IsSet(lastRollup.since))
        => \A key \in SourceBuckets :
              /\ \E d \in bars5m : d.symbol = Symbol /\ d.close_ts = key
              /\ \A d \in bars5m :
                    (d.symbol = Symbol /\ d.close_ts = key)
                        => IsAggregateOf(d, Members(key))

\* the same, when every source candle comes from one connector
OneConnectorConverges ==
    (\A r, o \in bars1m : r.source = o.source /\ r.exchange = o.exchange)
        => C10_Converges

----------------------------------------------------------------------------
(* storage/sqlite_manager.py: recent bars, cooldown state, delivery *)

\* get_cooldown_state: None or Some(row)
GetCooldownState(table, key) ==
    IF \E row \in table : row.id = key
    THEN Some(CHOOSE row \in table : row.id = key)
    ELSE None

\* variant of upsert_cooldown_state that keeps the stored row on a conflict
\* (ON CONFLICT(id) DO NOTHING)
UpsertCooldownStateIgnore(table, key, symbol, ruleName, timeframe, last_fire_ts) ==
    IF \E row \in table : row.id = key THEN table
    ELSE table \cup {[id |-> key, symbol |-> symbol, rule |-> ruleName,
                      timeframe |-> timeframe, last_fire_ts |-> last_fire_ts]}

\* ON CONFLICT(id) DO UPDATE SET last_fire_ts = excluded.last_fire_ts
UpsertCooldownState(table, key, symbol, ruleName, timeframe, last_fire_ts) ==
    IF \E row \in table : row.id = key
    THEN {IF row.id = key THEN [row EXCEPT !.last_fire_ts = last_fire_ts]
          ELSE row : row \in table}
    ELSE table \cup {[id |-> key, symbol |-> symbol, rule |-> ruleName,
                      timeframe |-> timeframe, last_fire_ts |-> last_fire_ts]}

\* UPDATE events SET delivered = 1 WHERE id = ?
MarkEventDelivered(table, id) ==
    {IF row.id = id THEN [row EXCEPT !.delivered = 1] ELSE row : row \in table}

----------------------------------------------------------------------------
(* indicators/zscore.py and rules/volume_spike.py *)

Squares(s) == [i \in DOMAIN s |-> s[i] * s[i]]

\* zscore_volume: None, or the z-score (current - mean) / pstdev held as the
\* pair num / sqrt(den2), with num = n * current - sum and
\* den2 = n * sum of squares - sum^2 (n times n times the variance)
ZscoreVolume(current, samples) ==
    LET n == Len(samples)
        den2 == n * SumSeq(Squares(samples)) - SumSeq(samples) * SumSeq(samples)
    IN  IF n < 2 THEN None
        ELSE IF den2 = 0 THEN None
        ELSE Some([num |-> n * current - SumSeq(samples), den2 |-> den2])

\* z < thr for z = num / sqrt(den2), thr an integer
ZBelow(z, thr) ==
    IF thr >= 0
    THEN z.num < 0 \/ z.num * z.num < thr * thr * z.den2
    ELSE z.num < 0 /\ z.num * z.num > thr * thr * z.den2

\* `bar.get("notional_usd") or 0.0`; every candle the connectors and the
\* rollup write carries a number, and `0 or 0.0` is 0
NotionalOf(bar) == bar.notional_usd

\* _baseline_notional
BaselineNotional(bars) == [i \in DOMAIN bars |-> NotionalOf(bars[i])]

\* bars[-lookback - 1 : -1]
BaselineBars(bars, lookback) ==
    SubSeq(bars, Len(bars) - lookback, Len(bars) - 1)

\* abs(ret) < min_abs_return, min_abs_return in hundredths; ret is 0.0 when
\* the previous close is 0
ReturnBelow(close, prev_close, min_abs_return) ==
    IF prev_close = 0 THEN 0 < min_abs_return
    ELSE Abs(close - prev_close) * 100 < min_abs_return * Abs(prev_close)

VolumeCooldownKey(symbol, timeframe) == <<"volume_spike", symbol, timeframe>>

\* variant of _passes_cooldown that takes cooldown_minutes for seconds
PassesCooldownSeconds(table, key, cooldown_minutes, t) ==
    LET state == GetCooldownState(table, key)
    IN  IF ~IsSet(state) THEN TRUE
        ELSE ~(t - Val(state).last_fire_ts < cooldown_minutes)

\* _passes_cooldown
PassesCooldown(table, key, cooldown_minutes, t) ==
    LET state == GetCooldownState(table, key)
    IN  IF ~IsSet(state) THEN TRUE
        ELSE ~(t - Val(state).last_fire_ts < cooldown_minutes * 60)

\* _create_event
CreateEvent(symbol, timeframe, bar, detail, t) ==
    [id |-> <<"VOL", symbol, timeframe, bar.close_ts>>, ts |-> bar.close_ts,
     symbol |-> symbol, source |-> bar.source, exchange |-> bar.exchange,
     timeframe |-> timeframe, rule |-> "volume_spike",
     severity |-> "warning", message |-> "Volume spike detected",
     detail_json |-> detail, created_at |-> t, delivered |-> 0]

\* variant of _handle_zscore without the check of the return
HandleZscoreAnyReturn(cfg, timeframe, symbol, bars, t) ==
    LET lookback == cfg.lookback
        baseline == BaselineBars(bars, lookback)
        current == bars[Len(bars)]
        current_notional == NotionalOf(current)
        z == ZscoreVolume(current_notional, BaselineNotional(baseline))
    IN  IF Len(bars) < lookback + 1 THEN None
        ELSE IF ~IsSet(z) THEN None
        ELSE IF ZBelow(Val(z), cfg.z_thr) THEN None
        ELSE IF current_notional < cfg.min_notional_usd THEN None
        ELSE Some(CreateEvent(symbol, timeframe, current,
                              [mode |-> "zscore", z_vol |-> Val(z),
                               notional |-> current_notional], t))

\* _handle_zscore: None or Some(event)
HandleZscore(cfg, timeframe, symbol, bars, t) ==
    LET lookback == cfg.lookback
        baseline == BaselineBars(bars, lookback)
        current == bars[Len(bars)]
        current_notional == NotionalOf(current)
        z == ZscoreVolume(current_notional, BaselineNotional(baseline))
    IN  IF Len(bars) < lookback + 1 THEN None
        ELSE IF ~IsSet(z) THEN None
        ELSE IF ZBelow(Val(z), cfg.z_thr) THEN None
        ELSE IF ReturnBelow(current.close, baseline[Len(baseline)].close,
                            cfg.min_abs_return)
        THEN None
        ELSE IF current_notional < cfg.min_notional_usd THEN None
        ELSE Some(CreateEvent(symbol, timeframe, current,
                              [mode |-> "zscore", z_vol |-> Val(z),
                               notional |-> current_notional], t))

\* variant of _find_bucket that returns the first bucket whatever its symbols
FindBucketAny(cfg, symbol) ==
    IF cfg.buckets = <<>> THEN None ELSE Some(cfg.buckets[1])

\* _find_bucket: the first bucket of the configuration that lists the symbol
FindBucket(cfg, symbol) ==
    LET holding == {i \in DOMAIN cfg.buckets : symbol \in cfg.buckets[i].symbols}
    IN  IF holding = {} THEN None
        ELSE Some(cfg.buckets[CHOOSE i \in holding : \A j \in holding : i <= j])

\* _handle_multiplier: None or Some(event); mult in hundredths
HandleMultiplier(cfg, timeframe, symbol, bars, t) ==
    LET lookback == cfg.lookback
        bucket == FindBucket(cfg, symbol)
        baseline == BaselineBars(bars, lookback)
        current == bars[Len(bars)]
        current_notional == NotionalOf(current)
        total == SumSeq(BaselineNotional(baseline))
    IN  IF Len(bars) < lookback + 1 THEN None
        ELSE IF ReturnBelow(current.close, baseline[Len(baseline)].close,
                            cfg.mult_min_abs_return)
        THEN None
        ELSE IF ~IsSet(bucket) THEN None
        ELSE IF total = 0 THEN None
        ELSE IF current_notional * Len(baseline) * 100 < Val(bucket).mult * total
                \/ current_notional < Val(bucket).min_notional_usd
        THEN None
        ELSE Some(CreateEvent(symbol, timeframe, current,
                              [mode |-> "multiplier",
                               notional |-> current_notional,
                               baseline_sum |-> total], t))

\* the body of the loop of run_volume_spike for one symbol:
\* [event, passed]: the event to insert, if any, and whether the cooldown
\* check was reached and passed
VolumeSpikeFor(cfg, timeframe, symbol, table, cooldowns, t) ==
    LET bars == FetchRecentBars(table, symbol, cfg.lookback + 1)
    IN  IF Len(bars) < cfg.lookback + 1
        THEN [event |-> None, reached |-> FALSE]
        ELSE IF ~PassesCooldown(cooldowns, VolumeCooldownKey(symbol, timeframe),
                                cfg.cooldown_minutes, t)
        THEN [event |-> None, reached |-> FALSE]
        ELSE [event |-> IF cfg.mode = "zscore"
                        THEN HandleZscore(cfg, timeframe, symbol, bars, t)
                        ELSE HandleMultiplier(cfg, timeframe, symbol, bars, t),
              reached |-> TRUE]

----------------------------------------------------------------------------
(* indicators/regression.py, indicators/atr.py and rules/trend_channel.py  *)
(*                                                                         *)
(* The regression runs over x = 0 .. w-1 and the closes y of the window.  *)
(* Its results are fractions, held here by integer numerators over the     *)
(* common denominators written next to each definition.                    *)

Closes(bars) == [i \in DOMAIN bars |-> bars[i].close]

\* w * var: w * sum(x^2) - sum(x)^2
RegV(w) ==
    w * SumSeq([i \in 1..w |-> (i - 1) * (i - 1)])
        - SumSeq([i \in 1..w |-> i - 1]) * SumSeq([i \in 1..w |-> i - 1])

\* w * cov: w * sum(x*y) - sum(x) * sum(y); slope = RegC / RegV
RegC(y) ==
    LET w == Len(y)
    IN  w * SumSeq([i \in 1..w |-> (i - 1) * y[i]])
            - SumSeq([i \in 1..w |-> i - 1]) * SumSeq(y)

\* w * ss_tot: w * sum(y^2) - sum(y)^2
RegT(y) == Len(y) * SumSeq(Squares(y)) - SumSeq(y) * SumSeq(y)

\* fitted[x] * w * RegV
RegFitted(y, x) ==
    LET w == Len(y)
    IN  RegV(w) * SumSeq(y) - RegC(y) * SumSeq([i \in 1..w |-> i - 1])
            + w * RegC(y) * x

\* ss_res * (w * RegV)^2
RegQ(y) ==
    LET w == Len(y)
    IN  SumSeq(Squares([i \in 1..w |-> w * RegV(w) * y[i] - RegFitted(y, i - 1)]))

\* r2 < r2_min, r2_min in hundredths; r2 is 0.0 when ss_tot is 0
R2Below(y, r2_min) ==
    IF RegT(y) = 0 THEN 0 < r2_min
    ELSE (100 - r2_min) * RegT(y) * Len(y) * RegV(Len(y)) * RegV(Len(y))
             < 100 * RegQ(y)

\* _atr_value(history) * period, for period = min(14, len(history)) =
\* len(history): the first ATR value is the plain mean of the true ranges
AtrTimesW(bars) == SumSeq(TrueRanges(bars))

\* variant of _cooldown_key that leaves the label out
TrendCooldownKeyShared(symbol, timeframe, label) == <<"trend", symbol, timeframe>>

\* _cooldown_key
TrendCooldownKey(symbol, timeframe, label) == <<"trend", symbol, timeframe, label>>

\* _build_event
BuildTrendEvent(symbol, timeframe, bar, label, detail, t) ==
    [id |-> <<"TC", label, symbol, bar.close_ts>>, ts |-> bar.close_ts,
     symbol |-> symbol, source |-> bar.source, exchange |-> bar.exchange,
     timeframe |-> timeframe,
     rule |-> IF label = "SUSTAIN" THEN "trend_sustain" ELSE "trend_breakout",
     severity |-> IF label = "SUSTAIN" THEN "info" ELSE "warning",
     message |-> IF label = "SUSTAIN" THEN "Trend channel sustain"
                 ELSE "Trend channel breakout",
     detail_json |-> detail,
     created_at |-> t, delivered |-> 0]

VolumeConfirmAlways(cfg, z, current_notional, baseline) == TRUE

\* the volume check before a BREAKOUT: z_notional >= vol_confirm_z, or, when
\* the z-score is None, the mean-based stand-in: a non-zero baseline mean and
\* current_notional >= baseline_mean * vol_confirm_z
VolumeConfirm(cfg, z, current_notional, baseline) ==
    IF IsSet(z) THEN ~ZBelow(Val(z), cfg.vol_confirm_z)
    ELSE /\ SumSeq(baseline) # 0
         /\ current_notional * Len(baseline)
                >= SumSeq(baseline) * cfg.vol_confirm_z

ConfirmedZZero(cfg, z) ==
    IF IsSet(z) THEN Val(z) ELSE [num |-> 0, den2 |-> 1]

\* z_notional once the volume is confirmed: the z-score, or
\* float(vol_confirm_z) under the mean-based stand-in
ConfirmedZ(cfg, z) ==
    IF IsSet(z) THEN Val(z) ELSE [num |-> cfg.vol_confirm_z, den2 |-> 1]

\* variant of predicted_next that always adds the slope
PredictedNextAhead(y, future_pred) ==
    RegFitted(y, Len(y) - 1) + Len(y) * RegC(y)

\* predicted_next * w * RegV: mid_price (the fitted value at the last index)
\* plus the slope if future_pred, mid_price alone otherwise
PredictedNext(y, future_pred) ==
    RegFitted(y, Len(y) - 1) + IF future_pred THEN Len(y) * RegC(y) ELSE 0

\* the classification of scan_trend_channel for one symbol: [label, detail],
\* label "" when the symbol gets none.  Fractions of the configuration are in
\* hundredths; vol_confirm_z is an integer.
TrendLabel(cfg, bars) ==
    LET w == cfg.window
        future_pred == Len(bars) # w
        past == IF future_pred THEN SubSeq(bars, 1, Len(bars) - 1) ELSE bars
        current_bar == bars[Len(bars)]
        y == Closes(past)
        V == RegV(w)
        C == RegC(y)
        A == AtrTimesW(past)
        \* deviation * w * V
        dev == w * V * current_bar.close - PredictedNext(y, future_pred)
        baseline == BaselineNotional(past)
        z == ZscoreVolume(NotionalOf(current_bar), baseline)
        confirmed == VolumeConfirm(cfg, z, NotionalOf(current_bar), baseline)
        z_notional == ConfirmedZ(cfg, z)
        detail == [deviation |-> dev, atr |-> A]
        breakout(direction) ==
            [label |-> "BREAKOUT", passed |-> TRUE,
             detail |-> [deviation |-> dev, atr |-> A, z_vol |-> z_notional,
                         direction |-> direction]]
        none == [label |-> "", detail |-> detail, passed |-> FALSE]
        unlabelled == [label |-> "", detail |-> detail, passed |-> TRUE]
    IN  IF Len(bars) < w THEN none
        ELSE IF V = 0 THEN none
        ELSE IF R2Below(y, cfg.r2_min) THEN none
        ELSE IF Abs(C) * 100 < cfg.slope_norm_min * V * Abs(y[w])
                \/ Abs(C) * 100 > cfg.slope_norm_max * V * Abs(y[w])
        THEN none
        ELSE IF RegQ(y) * 10000 > A * A * cfg.resid_atr_max * cfg.resid_atr_max * V * V * w
        THEN none
        ELSE IF Abs(dev) * 100 <= A * cfg.pullback_atr_max * V
        THEN [label |-> "SUSTAIN", detail |-> detail, passed |-> TRUE]
        ELSE IF ~confirmed THEN unlabelled
        ELSE IF dev * 100 >= cfg.breakout_atr_mult * A * V
        THEN breakout("up")
        ELSE IF dev * 100 <= -(cfg.breakout_atr_mult * A * V)
        THEN breakout("down")
        ELSE unlabelled

\* the body of the loop of scan_trend_channel for one symbol: the event to
\* insert, if any, and its label
TrendChannelFor(cfg, timeframe, symbol, table, cooldowns, t) ==
    LET bars == FetchRecentBars(table, symbol, cfg.window + 1)
        found == IF Len(bars) < cfg.window
                 THEN [label |-> "", detail |-> <<>>, passed |-> FALSE]
                 ELSE TrendLabel(cfg, bars)
    IN  IF found.label = ""
        THEN [event |-> None, label |-> "", found |-> found]
        ELSE IF ~PassesCooldown(cooldowns,
                                TrendCooldownKey(symbol, timeframe, found.label),
                                cfg.cooldown_minutes, t)
        THEN [event |-> None, label |-> found.label, found |-> found]
        ELSE [event |-> Some(BuildTrendEvent(symbol, timeframe,
                                             bars[Len(bars)], found.label,
                                             found.detail, t)),
              label |-> found.label, found |-> found]

----------------------------------------------------------------------------
(* The trend and volume evaluators as a state machine: run.py runs them    *)
(* every ScanPeriod seconds over bars_5m, one configured symbol            *)

ScanPeriod == 30      \* seconds between two runs of the rules task
Lookback == 2         \* volume_spike.zscore.lookback_windows
TrendWindow == 3      \* trend_channel.window; below 14, the ATR period cap
MaxScans == 2         \* the clock advances MaxScans times
MaxCooldown == 1      \* cooldown_minutes ranges over 0..MaxCooldown
MaxCandles == TrendWindow + 1   \* arrivals stop once bars_5m holds this many
BarSeconds == 5 * 60
StartClock == BarSeconds * MaxCandles

\* VolumeSpikeBucketConfig; mult in hundredths
VolumeSpikeBucketConfig(symbols, mult, min_notional_usd) ==
    [symbols |-> symbols, mult |-> mult, min_notional_usd |-> min_notional_usd]

\* AppConfig; fractions in hundredths
Settings(mode, cooldown_minutes) ==
    [mode |-> mode, cooldown_minutes |-> cooldown_minutes,
     lookback |-> Lookback, z_thr |-> 2, min_abs_return |-> 40,
     min_notional_usd |-> 4,
     mult_min_abs_return |-> 40,
     buckets |-> <<VolumeSpikeBucketConfig({Symbol}, 200, 4)>>,
     window |-> TrendWindow, r2_min |-> 60, slope_norm_min |-> 10,
     slope_norm_max |-> 100, resid_atr_max |-> 100, pullback_atr_max |-> 50,
     breakout_atr_mult |-> 100, vol_confirm_z |-> 1]

\* a 5-minute candle as the rollup writes it
Candle5m(closeTs, close, notional) ==
    [MakeBar("cex", "binance", Symbol, closeTs, close) EXCEPT
        !.open_ts = closeTs - BarSeconds, !.volume_quote = notional,
        !.notional_usd = notional]

RECURSIVE InsertCandles(_, _, _)
\* the candles closing at BarSeconds, 2 * BarSeconds, ..., written in order
InsertCandles(table, closes, notionals) ==
    IF closes = <<>> THEN table
    ELSE UpsertBar(InsertCandles(table, SubSeq(closes, 1, Len(closes) - 1),
                                 SubSeq(notionals, 1, Len(notionals) - 1)),
                   Candle5m(BarSeconds * Len(closes), closes[Len(closes)],
                            notionals[Len(notionals)]))

beyondRules ==
    <<bars1m, bars15m, serviceVars, kv, rule, batch, lastScan, track, lastRollup>>

InitRules(tables, configs) ==
    /\ bars1m = {}
    /\ bars5m \in tables
    /\ bars15m = {}
    /\ ServiceIdle
    /\ events = {}
    /\ kv = None
    /\ rule = Rule("above", None, None, "", 0, 0)
    /\ now = StartClock
    /\ lastScan = NoScan
    /\ track = NoTrack
    /\ lastRollup = NoRollup
    /\ cooldown = {}
    /\ settings \in configs
    /\ lastRun = NoRun
    /\ history = NoHistory
    /\ batch = {}

\* the time until the next run of the rules task passes; the clock stops
\* at `limit`
AdvanceUntil(limit) ==
    /\ now < limit
    /\ now' = now + ScanPeriod
    /\ lastRun' = NoRun
    /\ UNCHANGED <<bars5m, events, cooldown, settings, history, beyondRules>>

Advance == AdvanceUntil(StartClock + MaxScans * ScanPeriod)

ArrivalCloses == {3, 4, 6}
ArrivalNotionals == {2, 6}

\* the rollup writes the next 5-minute candle
Arrive5m ==
    \E close \in ArrivalCloses, notional \in ArrivalNotionals :
        /\ Cardinality(bars5m) < MaxCandles
        /\ bars5m' = UpsertBar(bars5m,
                               Candle5m(BarSeconds * (Cardinality(bars5m) + 1),
                                        close, notional))
        /\ lastRun' = NoRun
        /\ UNCHANGED <<events, cooldown, settings, now, history, beyondRules>>

\* the observations a fire leaves: the time of the key's latest fire and the
\* row of an id's first insert
Fired(key, event, table) ==
    [history EXCEPT
        !.lastFire = (key :> now) @@ @,
        !.created = IF event.id \in DOMAIN @ THEN @
                    ELSE (event.id :>
                            CHOOSE row \in table : row.id = event.id) @@ @]

PreviousFire(key) ==
    IF key \in DOMAIN history.lastFire THEN Some(history.lastFire[key])
    ELSE None

\* _table / _get_table
TableOf(timeframe) == IF timeframe = "5m" THEN bars5m ELSE bars15m

\* run_volume_spike(timeframe)
RunVolumeSpikeOn(timeframe) ==
    \E out \in {VolumeSpikeFor(settings, timeframe, Symbol, TableOf(timeframe),
                               cooldown, now)},
       free \in {VolumeSpikeFor(settings, timeframe, Symbol, TableOf(timeframe),
                                {}, now)} :
        LET key == VolumeCooldownKey(Symbol, timeframe)
        IN  /\ settings # NoSettings
            /\ events' = IF IsSet(out.event)
                         THEN InsertEvent(events, Val(out.event)) ELSE events
            /\ cooldown' = IF IsSet(out.event)
                           THEN UpsertCooldownState(cooldown, key, Symbol,
                                                    "volume_spike", timeframe,
                                                    now)
                           ELSE cooldown
            /\ lastRun' =
                 [kind |-> "volume", key |-> key, t |-> now,
                  reached |-> out.reached, fired |-> IsSet(out.event),
                  eligible |-> IsSet(free.event),
                  previous |-> PreviousFire(key),
                  bars |-> FetchRecentBars(TableOf(timeframe), Symbol,
                                           settings.lookback + 1)]
            /\ history' = IF IsSet(out.event)
                          THEN Fired(key, Val(out.event), events')
                          ELSE history
            /\ UNCHANGED <<bars5m, settings, now, beyondRules>>

\* run_volume_spike("5m")
RunVolumeSpike == RunVolumeSpikeOn("5m")

\* scan_trend_channel(timeframe)
ScanTrendChannelOn(timeframe) ==
    \E out \in {TrendChannelFor(settings, timeframe, Symbol, TableOf(timeframe),
                                cooldown, now)} :
        LET key == TrendCooldownKey(Symbol, timeframe, out.label)
        IN  /\ settings # NoSettings
            /\ events' = IF IsSet(out.event)
                         THEN InsertEvent(events, Val(out.event)) ELSE events
            /\ cooldown' = IF IsSet(out.event)
                           THEN UpsertCooldownState(cooldown, key, Symbol,
                                                    out.label, timeframe, now)
                           ELSE cooldown
            /\ lastRun' =
                 [kind |-> "trend", key |-> key, t |-> now,
                  reached |-> out.label # "", fired |-> IsSet(out.event),
                  eligible |-> out.label # "",
                  previous |-> PreviousFire(key),
                  bars |-> FetchRecentBars(TableOf(timeframe), Symbol,
                                           settings.window + 1),
                  found |-> out.found]
            /\ history' = IF IsSet(out.event)
                          THEN Fired(key, Val(out.event), events')
                          ELSE history
            /\ UNCHANGED <<bars5m, settings, now, beyondRules>>

\* scan_trend_channel("5m")
ScanTrendChannel == ScanTrendChannelOn("5m")

\* a consumer of the events calls mark_event_delivered on an undelivered one
MarkDelivered ==
    \E row \in events :
        /\ row.delivered = 0
        /\ events' = MarkEventDelivered(events, row.id)
        /\ history' = [history EXCEPT !.delivered = @ \cup {row.id}]
        /\ lastRun' = NoRun
        /\ UNCHANGED <<bars5m, cooldown, settings, now, beyondRules>>

\* bars_5m starts with the first TrendWindow - 1 candles of a rising series
SeedTables ==
    {InsertCandles({}, [i \in 1..(TrendWindow - 1) |-> i + 1],
                   [i \in 1..(TrendWindow - 1) |-> IF i % 2 = 1 THEN 1 ELSE 3])}

CooldownConfigs == {Settings("zscore", cd) : cd \in 0..MaxCooldown}

InitCooldown == InitRules(SeedTables, CooldownConfigs)

NextCooldown ==
    Advance \/ Arrive5m \/ RunVolumeSpike \/ ScanTrendChannel \/ MarkDelivered

SpecCooldown == InitCooldown /\ [][NextCooldown]_vars

\* the trend evaluator alone, over every table of TrendWindow - 1 to
\* TrendWindow + 1 candles
TrendCloses == {2, 3, 4, 6}
TrendNotionals == {1, 6}

TrendTables(window) ==
    UNION {{InsertCandles({}, closes, notionals) :
               closes \in [1..n -> TrendCloses],
               notionals \in [1..n -> TrendNotionals]} :
           n \in (window - 1)..(window + 1)}

InitTrend == InitRules(TrendTables(TrendWindow), CooldownConfigs)

NextTrend == Advance \/ ScanTrendChannel

SpecTrend == InitTrend /\ [][NextTrend]_vars

\* the volume evaluator alone, over every table of Lookback or Lookback + 1
\* candles
VolumeCloses == {2, 3}
VolumeNotionals == {1, 2, 3, 6}

VolumeTables ==
    UNION {{InsertCandles({}, closes, notionals) :
               closes \in [1..n -> VolumeCloses],
               notionals \in [1..n -> VolumeNotionals]} :
           n \in Lookback..(Lookback + 1)}

VolumeConfigs == {Settings(mode, MaxCooldown) : mode \in {"zscore", "multiplier"}}

InitVolume == InitRules(VolumeTables, VolumeConfigs)

NextVolume == Advance \/ RunVolumeSpike

SpecVolume == InitVolume /\ [][NextVolume]_vars

\* multiplier mode under configurations whose buckets hold the symbol, another
\* symbol, or nothing
OtherSymbol == "ETHUSDT"

BucketChoices ==
    {<<>>,
     <<VolumeSpikeBucketConfig({OtherSymbol}, 200, 4)>>,
     <<VolumeSpikeBucketConfig({OtherSymbol}, 100, 1),
       VolumeSpikeBucketConfig({Symbol}, 200, 4)>>,
     <<VolumeSpikeBucketConfig({Symbol, OtherSymbol}, 100, 1)>>}

BucketConfigs ==
    {[Settings("multiplier", cd) EXCEPT !.buckets = buckets] :
        cd \in 0..MaxCooldown, buckets \in BucketChoices}

InitBuckets == InitRules(VolumeTables, BucketConfigs)

SpecBuckets == InitBuckets /\ [][NextVolume]_vars

----------------------------------------------------------------------------
(* insert_event called directly, with full and with partial payloads        *)

EventIds == {"evt1", "evt2"}

\* the columns without a default are nullable and hold optional values
FullPayload(id, message, delivered) ==
    [id |-> id, ts |-> Some(2000), symbol |-> Some(Symbol),
     source |-> Some("binance"), exchange |-> Some("binance"),
     timeframe |-> Some("1m"), rule |-> Some("test"), severity |-> Some("info"),
     message |-> Some(message), detail_json |-> Some("{}"),
     created_at |-> Some(2000), delivered |-> delivered]

EventPayloads ==
    {FullPayload(id, m, d) : id \in EventIds, m \in {"hello", "updated"},
                             d \in 0..1}
    \cup {[id |-> id, message |-> Some(m)] : id \in EventIds,
                                             m \in {"hello", "updated"}}
    \cup {[id |-> id] : id \in EventIds}

InitEvents ==
    /\ InitRules({{}}, {NoSettings})
    /\ now = StartClock

\* insert_event(payload)
InsertEventCall ==
    \E payload \in EventPayloads :
        /\ events' = InsertEvent(events, payload)
        /\ history' =
             [history EXCEPT !.lastInsert = (payload.id :> payload) @@ @]
        /\ UNCHANGED <<bars5m, cooldown, settings, now, lastRun, beyondRules>>

NextEvents == InsertEventCall

SpecEvents == InitEvents /\ [][NextEvents]_vars

----------------------------------------------------------------------------
(* Properties of the events table and of the cooldown *)

\* C4: after any sequence of insert_event calls the events table holds at most
\* one row per id, and that row holds every field value of the latest insert
\* for the id.
C4_UpsertById ==
    /\ \A a, b \in events : a.id = b.id => a = b
    /\ \A id \in DOMAIN history.lastInsert :
          \E row \in events :
              /\ row.id = id
              /\ \A c \in DOMAIN history.lastInsert[id] :
                    row[c] = history.lastInsert[id][c]

\* a row written by a full insert and then updated by a partial one
C4_Witness ==
    \E row \in events :
        /\ row.id \in DOMAIN history.lastInsert
        /\ DOMAIN history.lastInsert[row.id] = {"id", "message"}
        /\ row.message = Some("updated")
        /\ row.ts = Some(2000)
        /\ row.delivered = 1

\* the scan that just ran fired inside the cooldown window of the key's
\* previous fire
FiredInsideWindow ==
    /\ lastRun.kind \in {"volume", "trend"}
    /\ lastRun.fired
    /\ IsSet(lastRun.previous)
    /\ Val(lastRun.previous) <= lastRun.t
    /\ lastRun.t < Val(lastRun.previous) + settings.cooldown_minutes * 60

\* C2: a scan at t2 with t1 <= t2 < t1 + cooldown_minutes * 60 does not fire
\* for a key (symbol, timeframe, label) or (symbol, timeframe) that fired at
\* t1.
C2_CooldownSpacing == ~FiredInsideWindow

\* an eligible scan inside the window of an earlier fire, which stays silent
C2_Witness ==
    /\ lastRun.kind \in {"volume", "trend"}
    /\ lastRun.eligible
    /\ ~lastRun.fired
    /\ IsSet(lastRun.previous)
    /\ lastRun.t > Val(lastRun.previous)
    /\ lastRun.t < Val(lastRun.previous) + settings.cooldown_minutes * 60

\* C5: once an event row exists no later scan changes any of its fields; a
\* delivered flag set by mark_event_delivered stays 1.
C5_NeverMutated ==
    \A row \in events :
        row.id \in DOMAIN history.created =>
            row = [history.created[row.id] EXCEPT
                      !.delivered = IF row.id \in history.delivered THEN 1
                                    ELSE @]

----------------------------------------------------------------------------
(* Properties of the z-score mode of the volume evaluator *)

\* the symbol has lookback + 1 candles and its key is not in cooldown
VolumePrecondition ==
    /\ lastRun.kind = "volume"
    /\ settings.mode = "zscore"
    /\ Len(lastRun.bars) >= settings.lookback + 1
    /\ IsSet(lastRun.previous) =>
           lastRun.t >= Val(lastRun.previous) + settings.cooldown_minutes * 60

\* the notionals of the `lookback` candles before the current one
Preceding ==
    [i \in 1..settings.lookback |->
        lastRun.bars[Len(lastRun.bars) - settings.lookback - 1 + i].notional_usd]

\* z >= z_thr for z = (current - mean) / pstdev, written with the deviations
\* n * x - sum of the preceding notionals x: the deviations are not all 0,
\* n * current - sum is not negative, and its square times n is at least
\* z_thr^2 times the sum of the squared deviations
ZPasses ==
    LET n == Len(Preceding)
        total == SumSeq(Preceding)
        current == lastRun.bars[Len(lastRun.bars)].notional_usd
        spread == SumSeq([i \in 1..n |->
                     (n * Preceding[i] - total) * (n * Preceding[i] - total)])
    IN  /\ spread # 0
        /\ n * current - total >= 0
        /\ (n * current - total) * (n * current - total) * n
               >= settings.z_thr * settings.z_thr * spread

ReturnPasses ==
    LET close == lastRun.bars[Len(lastRun.bars)].close
        prev == lastRun.bars[Len(lastRun.bars) - 1].close
    IN  Abs(close - prev) * 100 >= settings.min_abs_return * prev

NotionalPasses ==
    lastRun.bars[Len(lastRun.bars)].notional_usd >= settings.min_notional_usd

\* C8: in z-score mode, with lookback + 1 candles and no active cooldown,
\* run_volume_spike emits an event exactly when the z-score is defined and
\* >= z_thr, the absolute return is >= min_abs_return and the notional is
\* >= min_notional_usd.
C8_ZscoreFire ==
    VolumePrecondition => (lastRun.fired <=> ZPasses /\ ReturnPasses /\ NotionalPasses)

\* the z-score and the notional pass, the return alone fails: no event
C8_Witness ==
    /\ VolumePrecondition
    /\ ZPasses
    /\ NotionalPasses
    /\ ~ReturnPasses
    /\ ~lastRun.fired

----------------------------------------------------------------------------
(* Properties of the trend evaluator                                       *)

TrendRan == lastRun.kind = "trend" /\ lastRun.found.passed

\* |deviation| <= pullback_atr_max * ATR, from the recorded detail
InsidePullback ==
    Abs(lastRun.found.detail.deviation) * 100
        <= lastRun.found.detail.atr * settings.pullback_atr_max
               * RegV(settings.window)

\* |deviation| >= breakout_atr_mult * ATR, from the recorded detail
BeyondBreakout ==
    Abs(lastRun.found.detail.deviation) * 100
        >= lastRun.found.detail.atr * settings.breakout_atr_mult
               * RegV(settings.window)

\* the volume of the current candle against the candles of the regression:
\* z-score >= vol_confirm_z, or, with no z-score, a non-zero baseline mean
\* and current >= mean * vol_confirm_z
VolumeConfirmed ==
    LET bars == lastRun.bars
        n == IF Len(bars) > settings.window THEN Len(bars) - 1 ELSE Len(bars)
        base == [i \in 1..n |-> bars[i].notional_usd]
        cur == bars[Len(bars)].notional_usd
        spread == n * SumSeq(Squares(base)) - SumSeq(base) * SumSeq(base)
        thr == settings.vol_confirm_z
    IN  IF n >= 2 /\ spread # 0
        THEN /\ n * cur - SumSeq(base) >= 0
             /\ (n * cur - SumSeq(base)) * (n * cur - SumSeq(base))
                    >= thr * thr * spread
        ELSE SumSeq(base) # 0 /\ cur * n >= SumSeq(base) * thr

TrendEvents == {e \in events : e.id[1] = "TC"}

\* C15: for a symbol that passes the regression filters the scan assigns
\* SUSTAIN when |deviation| <= pullback_atr_max * ATR, otherwise BREAKOUT when
\* the volume is confirmed and |deviation| >= breakout_atr_mult * ATR, and
\* otherwise no label and no event; a SUSTAIN event has severity info and a
\* BREAKOUT event severity warning.
C15_OneLabel ==
    /\ TrendRan =>
          /\ lastRun.found.label =
                IF InsidePullback THEN "SUSTAIN"
                ELSE IF VolumeConfirmed /\ BeyondBreakout THEN "BREAKOUT"
                ELSE ""
          /\ lastRun.found.label = "" => ~lastRun.fired
    /\ \A e \in TrendEvents :
          /\ e.rule = "trend_sustain" <=> e.id[2] = "SUSTAIN"
          /\ e.rule = "trend_breakout" <=> e.id[2] = "BREAKOUT"
          /\ e.severity = IF e.id[2] = "SUSTAIN" THEN "info" ELSE "warning"

\* a scan that labelled BREAKOUT and fired, after scans of every outcome
C15_Witness ==
    /\ TrendRan /\ lastRun.found.label = "BREAKOUT" /\ lastRun.fired
    /\ ~InsidePullback /\ VolumeConfirmed /\ BeyondBreakout

C15_WitnessSustain ==
    TrendRan /\ lastRun.found.label = "SUSTAIN" /\ lastRun.fired

C15_WitnessUnconfirmed ==
    TrendRan /\ ~InsidePullback /\ BeyondBreakout /\ ~VolumeConfirmed

C15_WitnessBetween ==
    TrendRan /\ ~InsidePullback /\ ~BeyondBreakout /\ VolumeConfirmed

C15_WitnessFallback ==
    LET bars == lastRun.bars
    IN  /\ TrendRan /\ lastRun.found.label = "BREAKOUT"
        /\ \A i \in 1..(Len(bars) - 1) :
              bars[i].notional_usd = bars[1].notional_usd

\* C16: every BREAKOUT event records a direction matching the sign of the
\* deviation ('up' for deviation >= breakout_atr_mult * ATR, 'down' for
\* deviation <= -breakout_atr_mult * ATR) and a volume z-score that is not
\* below vol_confirm_z; no SUSTAIN event carries a direction or a z-score.
C16_BreakoutDetail ==
    \A e \in TrendEvents :
        LET d == e.detail_json
            reach == d.atr * settings.breakout_atr_mult * RegV(settings.window)
        IN  /\ e.rule = "trend_breakout" =>
                  /\ {"direction", "z_vol"} \subseteq DOMAIN d
                  /\ d.direction \in {"up", "down"}
                  /\ d.direction = "up" => d.deviation * 100 >= reach
                  /\ d.direction = "down" => d.deviation * 100 <= -reach
                  /\ d.z_vol.num >= 0
                  /\ d.z_vol.num * d.z_vol.num
                         >= settings.vol_confirm_z * settings.vol_confirm_z
                                * d.z_vol.den2
            /\ e.rule = "trend_sustain" =>
                  {"direction", "z_vol"} \cap DOMAIN d = {}

\* an upward BREAKOUT event is stored
C16_Witness ==
    \E e \in TrendEvents :
        /\ e.rule = "trend_breakout" /\ e.detail_json.direction = "up"
        /\ e.detail_json.deviation > 0

C16_WitnessSustain ==
    \E e \in TrendEvents : e.rule = "trend_sustain"

C16_WitnessDown ==
    \E e \in TrendEvents :
        e.rule = "trend_breakout" /\ e.detail_json.direction = "down"

----------------------------------------------------------------------------
(* The three evaluators of the rules task while the candles of a symbol are  *)
(* still few: bars_5m grows from TrendWindow - 1 candles under the volume    *)
(* and trend scans, or bars_1m grows towards AtrMinBars + 1 candles under an *)
(* atr_breakout rule                                                         *)

QuietClose == 2       \* the close of the candles bars_1m starts with
ShortBy == 2          \* bars_1m starts 1..ShortBy candles short of AtrMinBars

\* atr_breakout rules of every direction and confirmation mode; atr_k is 1
AtrRules ==
    {[Rule("atr_breakout", None, None, c[1], c[2], c[3]) EXCEPT !.direction = d] :
        d \in {"", "below", "both"},
        c \in {<<"", 0, 0>>, <<"time", 0, 0>>, <<"bar_close", 0, 0>>,
               <<"samples", 1, 0>>, <<"samples", MaxTotal, 1>>}}

\* n quiet 1-minute candles
QuietTable(n) ==
    InsertSeries({}, <<"cex", "binance">>, 0, [i \in 1..n |-> QuietClose], n)

InitAtr ==
    /\ bars1m \in {QuietTable(AtrMinBars - n) : n \in 1..ShortBy}
    /\ bars5m = {}
    /\ bars15m = {}
    /\ ServiceIdle
    /\ events = {}
    /\ kv = None
    /\ rule \in AtrRules
    /\ now = 1
    /\ lastScan = NoScan
    /\ track = NoTrack
    /\ lastRollup = NoRollup
    /\ cooldown = {}
    /\ settings = NoSettings
    /\ lastRun = NoRun
    /\ history = NoHistory
    /\ batch = {}

InitScarce == InitCooldown \/ InitAtr

\* the connector writes the next 1-minute candle, quiet or with a jump
AppendCandle ==
    \E px \in {QuietClose, QuietClose + 3} :
        /\ Cardinality(bars1m) <= AtrMinBars
        /\ bars1m' = UpsertBar(bars1m,
                               MakeBar("cex", "binance", Symbol,
                                       60 * (Cardinality(bars1m) + 1), px))
        /\ lastScan' = NoScan
        /\ UNCHANGED <<bars5m, events, kv, rule, now, track, beyondPrice>>

\* the rules task and the writers of the candles it reads
NextScarce ==
    \/ settings # NoSettings /\ Advance
    \/ settings # NoSettings /\ Arrive5m
    \/ settings # NoSettings /\ RunVolumeSpike
    \/ settings # NoSettings /\ ScanTrendChannel
    \/ rule.type = "atr_breakout" /\ Tick
    \/ rule.type = "atr_breakout" /\ AppendCandle
    \/ rule.type = "atr_breakout" /\ Ingest5m
    \/ rule.type = "atr_breakout" /\ ScanPriceAlerts

SpecScarce == InitScarce /\ [][NextScarce]_vars

----------------------------------------------------------------------------
(* upsert_bar called on both tables, with the chain values the writers pass  *)

\* binance_api and run.py pass "", the dex sync passes the chain of the
\* token_registry row, a nullable column
ChainValues == {Some(""), Some("BNB"), None}

TableNames == {"bars_1m", "bars_5m"}

MaxCalls == 3         \* upsert_bar is called MaxCalls times; now counts the calls

CandleKey(table, bar) ==
    <<table, bar.source, bar.exchange, bar.chain, bar.symbol, bar.close_ts>>

InitUpserts == InitRollup

\* upsert_bar(table, bar)
UpsertBarCall ==
    \E name \in TableNames, chain \in ChainValues, t \in CloseTimes,
       px \in CandlePrices :
        LET bar == [MakeBar("dex", "pancake", Symbol, t, px) EXCEPT !.chain = chain]
            table == IF name = "bars_1m" THEN bars1m ELSE bars5m
            written == UpsertBar(table, bar)
        IN  /\ now <= MaxCalls
            /\ now' = now + 1
            /\ bars1m' = IF name = "bars_1m" THEN written ELSE bars1m
            /\ bars5m' = IF name = "bars_5m" THEN written ELSE bars5m
            /\ history' =
                 [history EXCEPT
                     !.lastInsert = (CandleKey(name, bar) :> bar) @@ @]
            /\ UNCHANGED <<bars15m, serviceVars, events, kv, rule, batch, lastScan, track,
                           lastRollup, cooldown, settings, lastRun>>

NextUpserts == UpsertBarCall

SpecUpserts == InitUpserts /\ [][NextUpserts]_vars

\* one table holds at most one candle per key, and the candle of every key
\* written so far carries the fields of the key's latest upsert
OneCandlePerKey(name, table) ==
    /\ \A a, b \in table :
          CandleKey(name, a) = CandleKey(name, b) => a = b
    /\ \A key \in DOMAIN history.lastInsert :
          key[1] = name =>
              \E row \in table :
                  /\ CandleKey(name, row) = key
                  /\ \A c \in DOMAIN history.lastInsert[key] :
                        row[c] = history.lastInsert[key][c]

\* C18: after any sequence of upsert_bar calls each table holds at most one
\* candle per (source, exchange, chain, symbol, close_ts), with the non-key
\* fields of the most recent upsert for that key.
C18_OneCandlePerKey ==
    OneCandlePerKey("bars_1m", bars1m) /\ OneCandlePerKey("bars_5m", bars5m)

\* the same for the candles whose chain is not NULL
NamedChainUnique ==
    LET named(table) == {row \in table : IsSet(row.chain)}
    IN  /\ \A a, b \in named(bars1m) :
              CandleKey("bars_1m", a) = CandleKey("bars_1m", b) => a = b
        /\ \A a, b \in named(bars5m) :
              CandleKey("bars_5m", a) = CandleKey("bars_5m", b) => a = b

----------------------------------------------------------------------------
(* Properties of the multiplier mode                                       *)

InNoBucket ==
    /\ settings.mode = "multiplier"
    /\ \A i \in DOMAIN settings.buckets : Symbol \notin settings.buckets[i].symbols

\* C17: in multiplier mode a symbol that is in no bucket never gets a
\* volume-spike event, and its cooldown row is never created.
C17_NoBucketNoEvent ==
    InNoBucket =>
        /\ \A e \in events : ~(e.rule = "volume_spike" /\ e.symbol = Symbol)
        /\ GetCooldownState(cooldown, VolumeCooldownKey(Symbol, "5m")) = None
        /\ lastRun.kind = "volume" => ~lastRun.fired

\* a scan of a symbol in no bucket, although another bucket is configured, over
\* candles whose return and notional ratio pass every bucket of BucketChoices
C17_Witness ==
    /\ InNoBucket /\ settings.buckets # <<>>
    /\ lastRun.kind = "volume" /\ lastRun.reached /\ ~lastRun.fired
    /\ LET bars == lastRun.bars
           cur == bars[Len(bars)]
           base == SubSeq(bars, 1, Len(bars) - 1)
       IN  /\ Len(bars) = settings.lookback + 1
           /\ ~ReturnBelow(cur.close, base[Len(base)].close,
                           settings.mult_min_abs_return)
           /\ cur.notional_usd * Len(base) >= 2 * SumSeq(BaselineNotional(base))
           /\ cur.notional_usd >= 4

\* a symbol listed in the second bucket fires under that bucket's numbers
C17_WitnessListed ==
    /\ settings.mode = "multiplier" /\ Len(settings.buckets) = 2
    /\ lastRun.kind = "volume" /\ lastRun.fired

----------------------------------------------------------------------------
(* Properties of the evaluators over few candles                            *)

\* a confirmation that asks for a passing sample: every mode but samples
\* with confirm_samples_pass = 0, which confirms whatever the condition is
AsksForCondition(r) ==
    r.confirm_mode = "samples" => r.confirm_samples_pass >= 1

BaseCandles == Cardinality(SymbolRows(bars1m, rule.symbol))

C20_WitnessTrend ==
    lastRun.kind = "trend" /\ Len(lastRun.bars) = settings.window - 1

C20_WitnessVolume ==
    lastRun.kind = "volume" /\ Len(lastRun.bars) = settings.lookback

\* with AtrMinBars candles the same jump fires
C20_WitnessEnough ==
    /\ lastScan.kind = "scan" /\ rule.type = "atr_breakout"
    /\ lastScan.fired /\ BaseCandles >= AtrMinBars /\ rule.confirm_mode = ""

\* samples confirmation with confirm_samples_pass = 0 fires on few candles
C20_WitnessZeroPass ==
    /\ lastScan.kind = "scan" /\ rule.type = "atr_breakout"
    /\ lastScan.fired /\ BaseCandles < AtrMinBars

----------------------------------------------------------------------------
(* Price rules of every kind under scan_price_alerts: above, below, pct_up  *)
(* and pct_down over the candle that ingestion rewrites, atr_breakout over  *)
(* a table that grows past AtrMinBars candles                               *)

\* hysteresis unset, 0 and 1; no confirmation and each confirmation mode
KindRules ==
    {Rule(ty, hy, None, c[1], c[2], c[3]) :
        ty \in {"above", "below", "pct_up", "pct_down"},
        hy \in {None, Some(0), Some(1)},
        c \in {<<"", 0, 0>>, <<"time", 0, 0>>, <<"bar_close", 0, 0>>,
               <<"samples", 1, 0>>, <<"samples", MaxTotal, 1>>}}

InitKinds == InitPrice(KindRules) \/ InitAtr

NextKinds ==
    \/ Tick
    \/ rule.type # "atr_breakout" /\ Ingest1m
    \/ rule.type = "atr_breakout" /\ AppendCandle
    \/ Ingest5m
    \/ ScanPriceAlerts

SpecKinds == InitKinds /\ [][NextKinds]_vars

----------------------------------------------------------------------------
(* Properties of the Armed / Disarmed state of a price rule                 *)

\* the prices a scan can observe
ObservablePrices == 1..(MaxPrice + QuietClose + 3)

\* C21: a rule of any kind that is Disarmed is moved back to Armed by a scan
\* that observes a suitable price: for the stored state of a Disarmed rule
\* there is a price on which _apply_hysteresis re-arms it.
C21_EveryKindRearms ==
    ~LoadState(kv).armed
        => \E px \in ObservablePrices : ApplyHysteresis(rule, px, LoadState(kv))

\* the same for the kinds that _apply_hysteresis names
NamedKindsRearm ==
    (~LoadState(kv).armed /\ rule.type # "atr_breakout")
        => \E px \in ObservablePrices : ApplyHysteresis(rule, px, LoadState(kv))

\* the times of a later scan
LaterScans == (now + 1)..(now + ConfirmSeconds + 1)

\* C22: a rule that fires on one scan does not fire on the next scan when the
\* observed price is unchanged between the two, whatever its hysteresis and
\* confirmation are.
C22_NoImmediateRefire ==
    (lastScan.kind = "scan" /\ lastScan.fired)
        => \A t \in LaterScans :
               ~ScanRule(rule, lastScan.price, kv, t, bars5m).fired

\* the same for above and below rules with a hysteresis above 0 that fire on
\* the live price (no confirmation, or time confirmation)
BandStopsRefire ==
    (lastScan.kind = "scan" /\ lastScan.fired
     /\ rule.type \in {"above", "below"} /\ Truthy(rule.hysteresis)
     /\ rule.confirm_mode \in {"", "time"})
        => \A t \in LaterScans :
               ~ScanRule(rule, lastScan.price, kv, t, bars5m).fired

----------------------------------------------------------------------------
(* scan_price_alerts killed between two of its storage writes.  Every write *)
(* is its own committed transaction (_execute, insert_event), so the store  *)
(* keeps the writes made before the kill.  The writes of one rule, in order: *)
(* the _save_state of line 178 (a pct rule re-armed), then either the one   *)
(* _save_state of a scan that does not fire, or insert_event and the        *)
(* _save_state of line 198                                                  *)

CrashRules == {r \in KindRules : r.confirm_mode # "bar_close"}

ScanInterrupted ==
    LET price == LatestPrice(bars1m, rule.symbol)
        loaded == LoadState(kv)
    IN  /\ rule.enabled
        /\ IsSet(price)
        /\ LET px == Val(price)
               res == ScanRule(rule, px, kv, now, bars5m)
               isPct == rule.type \in {"pct_up", "pct_down"}
               \* line 178 ran and another write follows it
               early == isPct /\ IsSet(loaded.baseline) /\ res.rearmed
               st178 == Some([loaded EXCEPT !.armed = TRUE,
                                            !.baseline = Some(px)])
           IN  \E inserted \in BOOLEAN :
                   /\ inserted => res.fired
                   /\ inserted \/ early
                   /\ events' = IF inserted
                                THEN InsertEvent(events,
                                         BuildPriceEvent(rule, px, now))
                                ELSE events
                   /\ kv' = IF early THEN st178 ELSE kv
                   /\ lastScan' = [NoScan EXCEPT !.kind = "interrupted",
                                                 !.price = px,
                                                 !.fired = inserted]
        /\ UNCHANGED <<bars1m, bars5m, rule, now, track, beyondPrice>>

InitCrash == InitPrice(CrashRules)

NextCrash == Tick \/ Ingest1m \/ ScanPriceAlerts \/ ScanInterrupted

SpecCrash == InitCrash /\ [][NextCrash]_vars

\* C23: when a scan is killed after the event of a fire was stored, a re-run
\* at a later time over the same prices does not fire again: it finds the
\* rule in a state that needs a re-arm first, and the store does not get a
\* second event for the firing.
C23_CrashConsistent ==
    (lastScan.kind = "interrupted" /\ lastScan.fired)
        => \A t \in LaterScans :
               ~ScanRule(rule, lastScan.price, kv, t, bars5m).fired

----------------------------------------------------------------------------
(* Properties of the stored state of a price rule                           *)

\* C24: for a pct_up or pct_down rule, a scan leaves as persisted baseline the
\* price it observed when it established the baseline, fired or re-armed the
\* rule (pct_up: price <= stored baseline, pct_down: price >= stored
\* baseline), and the stored baseline otherwise; on a re-arming scan the
\* condition is evaluated against the reset baseline; no other step changes
\* the baseline.
C24_BaselineTracksResets ==
    [][LET before == LoadState(kv)
           after == LoadState(kv')
           px == lastScan'.price
           rearm == /\ ~before.armed
                    /\ RearmComparison(rule, px, before.baseline)
       IN  IF lastScan'.kind = "scan" /\ rule.type \in {"pct_up", "pct_down"}
           THEN /\ after.baseline =
                      IF ~IsSet(before.baseline) \/ lastScan'.fired \/ rearm
                      THEN Some(px) ELSE before.baseline
                /\ rearm => (after.armed \/ lastScan'.fired)
                /\ (~before.armed /\ ~rearm) => ~after.armed
                /\ (rearm /\ lastScan'.evaluated)
                      => lastScan'.condition =
                             EvaluateCondition(rule, px,
                                 [before EXCEPT !.baseline = Some(px)])
           ELSE after.baseline = before.baseline]_vars

\* a pct_up rule fired at a higher price and was re-armed by this scan, which
\* stored its own price as the baseline
C24_Witness ==
    /\ lastScan.kind = "scan" /\ rule.type = "pct_up"
    /\ ~lastScan.armedBefore /\ lastScan.armedAfter
    /\ Val(kv).baseline = Some(lastScan.price)
    /\ \E e \in events : e.detail_json.price > lastScan.price

\* C25: an above (below) rule with no confirmation or with time confirmation
\* emits an event only on a scan whose latest 1-minute close is >= level
\* (<= level).
C25_FiresOnlyBeyondLevel ==
    [][(/\ rule.type \in {"above", "below"}
        /\ rule.confirm_mode \in {"", "time"}
        /\ \/ events' # events
           \/ lastScan'.kind = "scan" /\ lastScan'.fired)
        => /\ lastScan'.kind = "scan"
           /\ LatestPrice(bars1m, rule.symbol) = Some(lastScan'.price)
           /\ rule.type = "above" => lastScan'.price >= Val(rule.level)
           /\ rule.type = "below" => lastScan'.price <= Val(rule.level)]_vars

\* an above rule under time confirmation fires, after scans below the level
\* that did not
C25_Witness ==
    /\ lastScan.kind = "scan" /\ lastScan.fired
    /\ rule.type = "above" /\ rule.confirm_mode = "time"
    /\ lastScan.price > Val(rule.level)
    /\ Cardinality(events) = 1

\* C26: a persisted state with armed = false has condition_since unset and
\* no samples: the fire clears both and a scan of a Disarmed rule records no
\* confirmation progress.
C26_DisarmedHoldsNoProgress ==
    (IsSet(kv) /\ ~Val(kv).armed)
        => /\ ~IsSet(Val(kv).condition_since)
           /\ Val(kv).samples = <<>>

\* a rule fired under time confirmation, on a scan that found condition_since
\* set by an earlier scan
C26_Witness ==
    /\ lastScan.kind = "scan" /\ lastScan.fired
    /\ rule.confirm_mode = "time"
    /\ IsSet(lastScan.since) /\ Val(lastScan.since) < now
    /\ ~Val(kv).armed

\* a rule fired under samples confirmation with samples on record
C26_WitnessSamples ==
    /\ lastScan.kind = "scan" /\ lastScan.fired
    /\ rule.confirm_mode = "samples" /\ rule.confirm_samples_total = MaxTotal
    /\ Len(lastScan.log) >= MaxTotal
    /\ ~Val(kv).armed

\* a scan of a Disarmed rule that did not re-arm it
C26_WitnessDisarmedScan ==
    /\ lastScan.kind = "scan" /\ ~lastScan.armedBefore /\ ~lastScan.armedAfter
    /\ ~lastScan.fired /\ rule.confirm_mode \in {"time", "samples"}

\* C27: after every scan the persisted samples of a rule under samples
\* confirmation number at most confirm_samples_total.
C27_SamplesBounded ==
    (rule.confirm_mode = "samples" /\ IsSet(kv))
        => Len(Val(kv).samples) <= rule.confirm_samples_total

\* the same for a total of at least 1
PositiveTotalBounded ==
    (rule.confirm_mode = "samples" /\ IsSet(kv)
     /\ rule.confirm_samples_total >= 1)
        => Len(Val(kv).samples) <= rule.confirm_samples_total

----------------------------------------------------------------------------
(* One run of the rules task over both timeframes: run.py calls            *)
(* run_volume_spike and scan_trend_channel on "5m" and on "15m".  The       *)
(* latest candle of bars_5m and the latest candle of bars_15m close at the  *)
(* same time, as they do at every multiple of 15 minutes                    *)

\* the close of the latest candle of both tables
FrameClose == 15 * 60 * TrendWindow

FrameSeconds(timeframe) == IF timeframe = "5m" THEN BarSeconds ELSE 3 * BarSeconds

\* a candle of the timeframe as the rollup writes it
CandleOf(timeframe, closeTs, close, notional) ==
    [MakeBar("cex", "binance", Symbol, closeTs, close) EXCEPT
        !.open_ts = closeTs - FrameSeconds(timeframe),
        !.volume_quote = notional, !.notional_usd = notional]

RECURSIVE WriteFrame(_, _, _, _)
\* the first n of the candles that end at FrameClose, written in order
WriteFrame(timeframe, closes, notionals, n) ==
    IF n = 0 THEN {}
    ELSE UpsertBar(WriteFrame(timeframe, closes, notionals, n - 1),
                   CandleOf(timeframe,
                            FrameClose - FrameSeconds(timeframe) * (Len(closes) - n),
                            closes[n], notionals[n]))

\* a steady rise, and a rise that ends in a jump
FrameCloses ==
    {[i \in 1..TrendWindow |-> i + 1],
     [i \in 1..TrendWindow |-> IF i = TrendWindow THEN i + 3 ELSE i + 1]}

\* a quiet last candle, and a last candle of high notional
FrameNotionals ==
    {[i \in 1..TrendWindow |->
         IF i = TrendWindow THEN last ELSE IF i % 2 = 1 THEN 1 ELSE 3] :
        last \in {1, 6}}

FrameTables(timeframe) ==
    {WriteFrame(timeframe, closes, notionals, TrendWindow) :
        closes \in FrameCloses, notionals \in FrameNotionals}

InitFrames ==
    /\ bars1m = {}
    /\ bars5m \in FrameTables("5m")
    /\ bars15m \in FrameTables("15m")
    /\ ServiceIdle
    /\ events = {}
    /\ kv = None
    /\ rule = Rule("above", None, None, "", 0, 0)
    /\ now = FrameClose
    /\ lastScan = NoScan
    /\ track = NoTrack
    /\ lastRollup = NoRollup
    /\ cooldown = {}
    /\ settings \in CooldownConfigs
    /\ lastRun = NoRun
    /\ history = NoHistory
    /\ batch = {}

\* run_volume_spike("15m") and scan_trend_channel("15m")
RunVolumeSpike15 == RunVolumeSpikeOn("15m")
ScanTrendChannel15 == ScanTrendChannelOn("15m")

NextFrames ==
    RunVolumeSpike \/ RunVolumeSpike15 \/ ScanTrendChannel \/ ScanTrendChannel15

SpecFrames == InitFrames /\ [][NextFrames]_vars

----------------------------------------------------------------------------
(* Properties of the events of the two timeframes                           *)

\* the event row of a fire of the cooldown key: both hold the symbol, the
\* timeframe and the rule (the label, for a trend key)
EventOfKey(key, e) ==
    /\ e.symbol = key[2]
    /\ e.timeframe = key[3]
    /\ IF key[1] = "trend" THEN e.id[1] = "TC" /\ e.id[2] = key[4]
       ELSE e.id[1] = "VOL"

\* C28: fires on different timeframes never share an id: every fire so far,
\* trend or volume, on 5m or on 15m, still has its own event row, none was
\* overwritten by the fire of the other timeframe.
C28_TimeframesApart ==
    \A key \in DOMAIN history.lastFire : \E e \in events : EventOfKey(key, e)

\* the same for the fires of run_volume_spike, whose ids hold the timeframe
VolumeTimeframesApart ==
    \A key \in DOMAIN history.lastFire :
        key[1] # "trend" => \E e \in events : EventOfKey(key, e)

\* the volume scans of both timeframes fired on candles of the same close_ts
VolumeBothFired ==
    /\ \E key \in DOMAIN history.lastFire : key[1] # "trend" /\ key[3] = "5m"
    /\ \E key \in DOMAIN history.lastFire : key[1] # "trend" /\ key[3] = "15m"

----------------------------------------------------------------------------
(* Properties of the cooldown rows                                          *)

\* C29: a trend or volume scan that emits no event leaves every cooldown row
\* as it was and creates none; a scan that emits one leaves the row of its
\* key with last_fire_ts = the scan's now_ts and the other rows as they were;
\* no other step writes the table.  So a key has a row exactly when it has
\* fired, and the row holds the time of its most recent fire.
C29_CooldownFollowsFires ==
    [][LET scanned == lastRun'.kind \in {"volume", "trend"}
           emitted == scanned /\ lastRun'.fired
       IN  /\ ~emitted => cooldown' = cooldown
           /\ emitted =>
                 /\ \E row \in cooldown' :
                       row.id = lastRun'.key /\ row.last_fire_ts = now
                 /\ {row \in cooldown' : row.id # lastRun'.key}
                       = {row \in cooldown : row.id # lastRun'.key}
                 /\ Cardinality({row \in cooldown' : row.id = lastRun'.key}) = 1
           /\ \A row \in cooldown' :
                 /\ row.id \in DOMAIN history'.lastFire
                 /\ row.last_fire_ts = history'.lastFire[row.id]
           /\ \A key \in DOMAIN history'.lastFire :
                 \E row \in cooldown' : row.id = key]_vars

\* a key fires a second time, at a later scan than its first fire
C29_Witness ==
    /\ lastRun.kind \in {"volume", "trend"}
    /\ lastRun.fired
    /\ IsSet(lastRun.previous) /\ Val(lastRun.previous) < now
    /\ \E row \in cooldown : row.id = lastRun.key /\ row.last_fire_ts = now

\* a scan found a label and emitted nothing: the key is inside its cooldown
C29_WitnessSilent ==
    /\ lastRun.kind = "trend" /\ lastRun.reached /\ ~lastRun.fired
    /\ \E row \in cooldown : row.id = lastRun.key /\ row.last_fire_ts < now

\* a scan found nothing to fire on while no row exists
C29_WitnessNoRow ==
    /\ lastRun.kind \in {"volume", "trend"} /\ ~lastRun.fired
    /\ cooldown = {}

----------------------------------------------------------------------------
(* The trend evaluator over a rising series that goes on rising or jumps:   *)
(* bars_5m starts with TrendWindow candles and grows by two more            *)

\* the clock starts at the close of the last candle that arrives
LabelClock == BarSeconds * (TrendWindow + 2)

LabelSeed ==
    InsertCandles({}, [i \in 1..TrendWindow |-> i + 1],
                  [i \in 1..TrendWindow |-> IF i % 2 = 1 THEN 1 ELSE 3])

InitLabels ==
    /\ bars1m = {}
    /\ bars5m = LabelSeed
    /\ bars15m = {}
    /\ ServiceIdle
    /\ events = {}
    /\ kv = None
    /\ rule = Rule("above", None, None, "", 0, 0)
    /\ now = LabelClock
    /\ lastScan = NoScan
    /\ track = NoTrack
    /\ lastRollup = NoRollup
    /\ cooldown = {}
    /\ settings \in CooldownConfigs
    /\ lastRun = NoRun
    /\ history = NoHistory
    /\ batch = {}

\* the rollup writes the next 5-minute candle: the close goes up by 1 or
\* jumps by 3, on low or high notional
ArriveRising ==
    \E step \in {1, 3}, notional \in ArrivalNotionals :
        /\ Cardinality(bars5m) < TrendWindow + 2
        /\ bars5m' = UpsertBar(bars5m,
                               Candle5m(BarSeconds * (Cardinality(bars5m) + 1),
                                        Val(FetchLatestBar(bars5m, Symbol)).close
                                            + step,
                                        notional))
        /\ lastRun' = NoRun
        /\ UNCHANGED <<events, cooldown, settings, now, history, beyondRules>>

AdvanceLabels == AdvanceUntil(LabelClock + MaxScans * ScanPeriod)

NextLabels == AdvanceLabels \/ ArriveRising \/ ScanTrendChannel

SpecLabels == InitLabels /\ [][NextLabels]_vars

\* the stored trend events of a label on a timeframe; created_at is the time
\* of the latest fire on the event's candle
LabelEvents(table, timeframe, label) ==
    {e \in table : e.id[1] = "TC" /\ e.id[2] = label /\ e.timeframe = timeframe}

\* C30: the trend cooldown is per label: a scan that finds a label fires
\* exactly when no fire of the same label on the timeframe lies inside the
\* cooldown window; a fire of the other label neither blocks nor delays it.
C30_CooldownPerLabel ==
    [][(lastRun'.kind = "trend" /\ lastRun'.found.label # "")
        => (lastRun'.fired <=>
               \A e \in LabelEvents(events, lastRun'.key[3], lastRun'.found.label) :
                   now - e.created_at >= settings.cooldown_minutes * 60)]_vars

\* a BREAKOUT fires inside the cooldown window of a SUSTAIN fire
C30_Witness ==
    /\ lastRun.kind = "trend" /\ lastRun.fired
    /\ lastRun.found.label = "BREAKOUT"
    /\ settings.cooldown_minutes >= 1
    /\ \E e \in LabelEvents(events, "5m", "SUSTAIN") :
          now - e.created_at < settings.cooldown_minutes * 60

\* a SUSTAIN fires inside the cooldown window of a BREAKOUT fire
C30_WitnessSustain ==
    /\ lastRun.kind = "trend" /\ lastRun.fired
    /\ lastRun.found.label = "SUSTAIN"
    /\ settings.cooldown_minutes >= 1
    /\ \E e \in LabelEvents(events, "5m", "BREAKOUT") :
          now - e.created_at < settings.cooldown_minutes * 60

----------------------------------------------------------------------------
(* History and subject of the trend scan                                   *)

\* the candles the scan fetched, without the last one
Earlier(bars) == SubSeq(bars, 1, Len(bars) - 1)

\* C31: scan_trend_channel chooses history and subject by candle count:
\* with fewer than `window` candles the symbol is skipped; with exactly
\* `window` all of them are the history, the last is the subject and the
\* prediction is the fitted value at the last index; with `window + 1` the
\* last is the subject, the `window` before it are the history and the
\* prediction is the fitted value plus the slope.  Deviation and ATR are
\* read from the recorded detail, the subject from the id of the event.
C31_HistoryByCount ==
    lastRun.kind = "trend" =>
        LET bars == lastRun.bars
            w == settings.window
            n == Len(bars)
            found == lastRun.found
        IN  /\ n <= w + 1
            /\ n < w => ~found.passed /\ found.label = "" /\ ~lastRun.fired
            /\ n = w =>
                  /\ found.detail.deviation
                         = w * RegV(w) * bars[n].close
                               - RegFitted(Closes(bars), w - 1)
                  /\ found.detail.atr = AtrTimesW(bars)
            /\ n = w + 1 =>
                  /\ found.detail.deviation
                         = w * RegV(w) * bars[n].close
                               - (RegFitted(Closes(Earlier(bars)), w - 1)
                                      + w * RegC(Closes(Earlier(bars))))
                  /\ found.detail.atr = AtrTimesW(Earlier(bars))
            /\ lastRun.fired =>
                  \E e \in events :
                      /\ e.id = <<"TC", found.label, Symbol, bars[n].close_ts>>
                      /\ e.created_at = now

\* a scan over window + 1 candles fires on a rising history
C31_Witness ==
    /\ lastRun.kind = "trend"
    /\ Len(lastRun.bars) = settings.window + 1
    /\ lastRun.fired
    /\ RegC(Closes(Earlier(lastRun.bars))) > 0

\* a scan over exactly window candles fires on a rising history
C31_WitnessExact ==
    /\ lastRun.kind = "trend"
    /\ Len(lastRun.bars) = settings.window
    /\ lastRun.fired
    /\ RegC(Closes(lastRun.bars)) > 0

\* a scan over fewer than window candles skips the symbol
C31_WitnessShort ==
    /\ lastRun.kind = "trend"
    /\ Len(lastRun.bars) = settings.window - 1
    /\ ~lastRun.fired

----------------------------------------------------------------------------
(* Rollup runs with since_ts                                               *)

\* every candle the last run wrote is the aggregate of all the source
\* candles stored in its bucket, and the destination holds it
WrittenWhole ==
    \A p \in lastRollup.written :
        /\ IsAggregateOf(p, Members(p.close_ts))
        /\ \E d \in bars5m : \A col \in DOMAIN p : d[col] = p[col]

\* C32: a destination candle written by rollup_bars is the aggregate of
\* every source candle stored in its bucket, also when the run is given a
\* since_ts that falls inside the bucket.
C32_SinceKeepsBuckets ==
    lastRollup.kind = "run" => WrittenWhole

\* the same for the runs that cut no bucket: no since_ts, or a since_ts that
\* is the close of the first minute of a bucket
UncutRunsWhole ==
    (/\ lastRollup.kind = "run"
     /\ \/ ~IsSet(lastRollup.since)
        \/ (Val(lastRollup.since) - 60) % (Window * 60) = 0)
        => WrittenWhole

\* a run with since_ts on a bucket boundary wrote that bucket from its last
\* candle alone, over the candle of an earlier run
CutBucketWritten ==
    /\ lastRollup.kind = "run"
    /\ IsSet(lastRollup.since)
    /\ \E p \in lastRollup.written :
          /\ p.close_ts = Val(lastRollup.since)
          /\ Cardinality(Members(p.close_ts)) = Window
          /\ ~IsAggregateOf(p, Members(p.close_ts))

----------------------------------------------------------------------------
(* The counts a rollup run returns                                         *)

\* the source candles the last run loaded
Loaded ==
    {r \in bars1m :
        IsSet(lastRollup.since) => r.close_ts >= Val(lastRollup.since)}

\* the (symbol, bucket) pairs the loaded candles fall into
LoadedBuckets ==
    {<<r.symbol, BucketCloseTs(r.close_ts, Window)>> : r \in Loaded}

\* the pairs among them with no loaded candle that closes on the boundary
BoundaryMissing ==
    {b \in LoadedBuckets :
        ~\E r \in Loaded : r.symbol = b[1] /\ r.close_ts = b[2]}

\* C33: rollup_bars returns aggregated = the number of (symbol, bucket)
\* candles it wrote, incomplete buckets included, and skipped = the number
\* of those buckets with no member closing on the boundary; skipped <=
\* aggregated, every bucket of a loaded candle is written to the
\* destination, whatever the gaps between the source candles.
C33_RollupCounts ==
    lastRollup.kind = "run" =>
        /\ lastRollup.aggregated = Cardinality(LoadedBuckets)
        /\ lastRollup.skipped = Cardinality(BoundaryMissing)
        /\ lastRollup.skipped <= lastRollup.aggregated
        /\ \A b \in LoadedBuckets :
              /\ \E p \in lastRollup.written :
                    p.symbol = b[1] /\ p.close_ts = b[2]
              /\ \E d \in bars5m : d.symbol = b[1] /\ d.close_ts = b[2]

\* a run over two candles more than 60 s apart: both buckets are written,
\* the one after the gap included, though incomplete
C33_Witness ==
    /\ lastRollup.kind = "run"
    /\ \E r, o \in Loaded :
          /\ o.close_ts - r.close_ts > 60
          /\ ~\E x \in bars1m : r.close_ts < x.close_ts /\ x.close_ts < o.close_ts
          /\ \E d \in bars5m : d.close_ts = BucketCloseTs(o.close_ts, Window)
    /\ lastRollup.skipped >= 1
    /\ lastRollup.aggregated >= 2

----------------------------------------------------------------------------
(* connectors/dex_api.py: the failure cooldown of an adapter.  One adapter, *)
(* its entry of _FAIL_STATES in failStates, time.monotonic() in `now`       *)

SnoozeStep == 60      \* cooldown = min(60.0 * count, 600.0)
SnoozeCap == 600
MonoStep == 30        \* the monotonic clock advances by MonoStep
MaxMono == 360        \* and stops at MaxMono

Min2(a, b) == IF a <= b THEN a ELSE b

\* _is_in_cooldown: [cooling, states], the answer and _FAIL_STATES[name]
\* as the call leaves it
IsInCooldown(states, t) ==
    IF ~IsSet(states) THEN [cooling |-> FALSE, states |-> states]
    ELSE IF Val(states).snooze_until - t > 0
    THEN [cooling |-> TRUE, states |-> states]
    ELSE [cooling |-> FALSE, states |-> None]

\* _record_failure
RecordFailure(states, t) ==
    LET count == (IF IsSet(states) THEN Val(states).fail_count ELSE 0) + 1
        cooldownSeconds == Min2(SnoozeStep * count, SnoozeCap)
    IN  Some([fail_count |-> count, snooze_until |-> t + cooldownSeconds])

\* the failures in a row up to the most recent attempted fetch
Streak == IF lastCall.kind = "fetch" THEN lastCall.streak ELSE 0

beyondAdapter ==
    <<bars1m, bars5m, bars15m, events, kv, rule, batch, lastScan, track,
      lastRollup, cooldown, settings, lastRun, history, tasks, threads,
      notifier, notifierState, played, lastCloseTs>>

InitAdapter ==
    /\ bars1m = {}
    /\ bars5m = {}
    /\ bars15m = {}
    /\ ServiceIdle
    /\ events = {}
    /\ kv = None
    /\ rule = Rule("above", None, None, "", 0, 0)
    /\ now = MonoStep
    /\ lastScan = NoScan
    /\ track = NoTrack
    /\ lastRollup = NoRollup
    /\ cooldown = {}
    /\ settings = NoSettings
    /\ lastRun = NoRun
    /\ history = NoHistory
    /\ batch = {}

\* time.monotonic() moves on
MonoTick ==
    /\ now < MaxMono
    /\ now' = now + MonoStep
    /\ UNCHANGED <<failStates, lastCall, beyondAdapter>>

\* fetch_1m_bar while the adapter is snoozed: returns [] without a fetch
FetchSnoozed ==
    \E check \in {IsInCooldown(failStates, now)} :
        /\ check.cooling
        /\ failStates' = check.states
        /\ lastCall' = [kind |-> "fetch", outcome |-> "snoozed", t |-> now,
                        before |-> failStates, streak |-> Streak]
        /\ UNCHANGED <<now, beyondAdapter>>

\* fetch_1m_bar, the adapter answers: the entry of _FAIL_STATES is popped
FetchReturns ==
    \E check \in {IsInCooldown(failStates, now)} :
        /\ ~check.cooling
        /\ failStates' = None
        /\ lastCall' = [kind |-> "fetch", outcome |-> "returned", t |-> now,
                        before |-> failStates, streak |-> 0]
        /\ UNCHANGED <<now, beyondAdapter>>

\* fetch_1m_bar, the adapter raises: _record_failure
FetchRaises ==
    \E check \in {IsInCooldown(failStates, now)} :
        /\ ~check.cooling
        /\ failStates' = RecordFailure(check.states, now)
        /\ lastCall' = [kind |-> "fetch", outcome |-> "raised", t |-> now,
                        before |-> failStates, streak |-> Streak + 1]
        /\ UNCHANGED <<now, beyondAdapter>>

NextAdapter == MonoTick \/ FetchSnoozed \/ FetchReturns \/ FetchRaises

SpecAdapter == InitAdapter /\ [][NextAdapter]_vars

\* C38: the k-th failure in a row without a successful fetch in between
\* snoozes the adapter for min(60 * k, 600) seconds, no fetch is attempted
\* while the snooze is active, and a successful fetch resets the count.
C38_EscalatingSnooze ==
    lastCall.kind = "fetch" =>
        /\ lastCall.outcome = "raised" =>
              (now = lastCall.t =>
                  /\ IsSet(failStates)
                  /\ Val(failStates).snooze_until
                        = lastCall.t + Min2(SnoozeStep * lastCall.streak,
                                            SnoozeCap))
        /\ lastCall.outcome = "snoozed" <=>
              /\ IsSet(lastCall.before)
              /\ Val(lastCall.before).snooze_until > lastCall.t
        /\ lastCall.outcome = "returned" => (now = lastCall.t => failStates = None)

\* what the code keeps of it: every failure snoozes for 60 s, no fetch is
\* attempted while the snooze is active, and a successful fetch clears the
\* entry
EveryFailureSnoozesOnce ==
    lastCall.kind = "fetch" =>
        /\ lastCall.outcome = "raised" =>
              (now = lastCall.t =>
                  /\ IsSet(failStates)
                  /\ Val(failStates).fail_count = 1
                  /\ Val(failStates).snooze_until = lastCall.t + SnoozeStep)
        /\ lastCall.outcome = "snoozed" <=>
              /\ IsSet(lastCall.before)
              /\ Val(lastCall.before).snooze_until > lastCall.t
        /\ lastCall.outcome = "returned" => (now = lastCall.t => failStates = None)

\* the third failure in a row, with no successful fetch in between
ThirdFailureInARow ==
    /\ lastCall.kind = "fetch"
    /\ lastCall.outcome = "raised"
    /\ lastCall.streak = 3
    /\ now = lastCall.t

----------------------------------------------------------------------------
(* connectors/binance_api.py: BinanceStream handles the closed 1-minute     *)
(* klines of one symbol.  A kline opens at 60000 * m ms and closes at       *)
(* 60000 * m + 59999 ms.                                                    *)

MaxMinute == 3        \* klines of the minutes 0..MaxMinute

Kline(m, px) == [t |-> 60000 * m, T |-> 60000 * m + 59999, px |-> px]

\* _kline_to_bar, and the bar _fetch_gap builds from a REST entry: the
\* times are the millisecond times // 1000
KlineToBar(symbol, kline) ==
    [MakeBar("cex", "binance", symbol, kline.T \div 1000, kline.px)
        EXCEPT !.open_ts = kline.t \div 1000]

\* the klines the REST endpoint holds with startTime <= open time <= endTime
RestKlines(startMs, endMs) ==
    {Kline(m, 1) : m \in {k \in 0..MaxMinute :
                            startMs <= 60000 * k /\ 60000 * k <= endMs}}

\* variant of the gap test that lets one missing kline pass
GapAheadLate(last_close, close_ts) ==
    /\ IsSet(last_close)
    /\ Val(last_close) # 0
    /\ close_ts - Val(last_close) > 120

\* `if last_close and close_ts - last_close > 60`
GapAhead(last_close, close_ts) ==
    /\ IsSet(last_close)
    /\ Val(last_close) # 0
    /\ close_ts - Val(last_close) > 60

\* the entries of a REST answer in the order it lists them: by open time
RECURSIVE EntriesInOrder(_)
EntriesInOrder(entries) ==
    IF entries = {} THEN <<>>
    ELSE LET first == CHOOSE e \in entries : \A o \in entries : e.t <= o.t
         IN  <<first>> \o EntriesInOrder(entries \ {first})

\* the loop of _fetch_gap: one upsert per entry
RECURSIVE StoreEntries(_, _, _)
StoreEntries(table, symbol, entries) ==
    IF entries = <<>> THEN table
    ELSE StoreEntries(UpsertBar(table, KlineToBar(symbol, Head(entries))),
                      symbol, Tail(entries))

beyondStream ==
    <<bars5m, bars15m, events, kv, rule, batch, now, lastScan, track,
      lastRollup, cooldown, settings, lastRun, history, tasks, threads,
      notifier, notifierState, played, failStates>>

InitStream ==
    /\ bars1m = {}
    /\ bars5m = {}
    /\ bars15m = {}
    /\ ServiceIdle
    /\ events = {}
    /\ kv = None
    /\ rule = Rule("above", None, None, "", 0, 0)
    /\ now = 1
    /\ lastScan = NoScan
    /\ track = NoTrack
    /\ lastRollup = NoRollup
    /\ cooldown = {}
    /\ settings = NoSettings
    /\ lastRun = NoRun
    /\ history = NoHistory
    /\ batch = {}

\* _handle_closed_kline with no gap ahead of the kline
HandleClosedKline ==
    \E m \in 0..MaxMinute, px \in CandlePrices :
        LET kline == Kline(m, px)
            close_ts == kline.T \div 1000
        IN  /\ ~GapAhead(lastCloseTs, close_ts)
            /\ bars1m' = UpsertBar(bars1m, KlineToBar(Symbol, kline))
            /\ lastCloseTs' = Some(close_ts)
            /\ lastCall' = [kind |-> "kline", close_ts |-> close_ts,
                            before |-> lastCloseTs, requested |-> None,
                            raised |-> FALSE, stored |-> <<close_ts>>]
            /\ UNCHANGED beyondStream

\* _handle_closed_kline with a gap ahead: _fetch_gap asks the REST endpoint
\* and stores what it returns, then the kline is stored
HandleKlineAfterGap ==
    \E m \in 0..MaxMinute, px \in CandlePrices :
        LET kline == Kline(m, px)
            close_ts == kline.T \div 1000
            start_ts == Val(lastCloseTs)
            end_ts == close_ts - 60
        IN  /\ GapAhead(lastCloseTs, close_ts)
            /\ \E returned \in SUBSET RestKlines(start_ts * 1000, end_ts * 1000) :
                  LET data == EntriesInOrder(returned)
                      filled == IF end_ts <= start_ts THEN bars1m
                                ELSE StoreEntries(bars1m, Symbol, data)
                  IN  /\ bars1m' = UpsertBar(filled, KlineToBar(Symbol, kline))
                      /\ lastCall' =
                           [kind |-> "kline", close_ts |-> close_ts,
                            before |-> lastCloseTs,
                            requested |-> IF end_ts <= start_ts THEN None
                                          ELSE Some([startTime |-> start_ts * 1000,
                                                     endTime |-> end_ts * 1000,
                                                     returned |-> returned]),
                            raised |-> FALSE,
                            stored |-> [i \in DOMAIN data |-> data[i].T \div 1000]
                                           \o <<close_ts>>]
            /\ lastCloseTs' = Some(close_ts)
            /\ UNCHANGED beyondStream

\* _handle_closed_kline with a gap ahead and a REST request that raises:
\* the exception leaves the handler
HandleKlineRestRaises ==
    \E m \in 0..MaxMinute :
        LET close_ts == Kline(m, 1).T \div 1000
            start_ts == Val(lastCloseTs)
            end_ts == close_ts - 60
        IN  /\ GapAhead(lastCloseTs, close_ts)
            /\ end_ts > start_ts
            /\ lastCall' = [kind |-> "kline", close_ts |-> close_ts,
                            before |-> lastCloseTs,
                            requested |-> Some([startTime |-> start_ts * 1000,
                                                endTime |-> end_ts * 1000,
                                                returned |-> {}]),
                            raised |-> TRUE, stored |-> <<>>]
            /\ UNCHANGED <<bars1m, lastCloseTs, beyondStream>>

NextStream == HandleClosedKline \/ HandleKlineAfterGap \/ HandleKlineRestRaises

SpecStream == InitStream /\ [][NextStream]_vars

\* the close times of bars_1m
StoredCloses == {r.close_ts : r \in bars1m}

\* C39: a closed kline whose close is more than 60 s after the last handled
\* close of the symbol makes the stream request a REST backfill from that
\* last close to 60 s before the new close; the returned candles are stored
\* before the new candle, and then the marker advances.  The first kline of
\* a symbol and a kline at most 60 s after the previous one request nothing.
C39_BackfillOnGap ==
    lastCall.kind = "kline" =>
        /\ IsSet(lastCall.requested) <=>
              /\ IsSet(lastCall.before)
              /\ lastCall.close_ts - Val(lastCall.before) > 60
        /\ IsSet(lastCall.requested) =>
              /\ Val(lastCall.requested).startTime = Val(lastCall.before) * 1000
              /\ Val(lastCall.requested).endTime = (lastCall.close_ts - 60) * 1000
        /\ ~lastCall.raised =>
              /\ lastCloseTs = Some(lastCall.close_ts)
              /\ lastCall.stored[Len(lastCall.stored)] = lastCall.close_ts
              /\ \A i \in DOMAIN lastCall.stored : lastCall.stored[i] \in StoredCloses
              /\ IsSet(lastCall.requested) =>
                    /\ Len(lastCall.stored)
                          = Cardinality(Val(lastCall.requested).returned) + 1
                    /\ \A e \in Val(lastCall.requested).returned :
                          \E i \in 1..(Len(lastCall.stored) - 1) :
                              lastCall.stored[i] = e.T \div 1000
              /\ ~IsSet(lastCall.requested) => Len(lastCall.stored) = 1
        /\ lastCall.raised => lastCloseTs = lastCall.before

\* a kline three minutes after the last one: the two candles in between
\* came back from REST and were stored before it
C39_Witness ==
    /\ lastCall.kind = "kline"
    /\ IsSet(lastCall.requested)
    /\ Len(lastCall.stored) = 3
    /\ lastCall.close_ts - Val(lastCall.before) = 180

\* the first kline of the symbol
C39_WitnessFirst ==
    /\ lastCall.kind = "kline"
    /\ ~IsSet(lastCall.before)
    /\ ~IsSet(lastCall.requested)

\* a kline exactly 60 s after the previous one
C39_WitnessNext ==
    /\ lastCall.kind = "kline"
    /\ IsSet(lastCall.before)
    /\ lastCall.close_ts - Val(lastCall.before) = 60
    /\ ~IsSet(lastCall.requested)

----------------------------------------------------------------------------
(* agent/local_notifier.py: one LocalNotifier client polls the events table *)
(* while the evaluators insert events                                       *)

FetchLimit == 2       \* poll_once passes limit=200; the model scales it down
MaxPollClock == 3     \* the clock stops at MaxPollClock

AlertIds == {"TC-SUSTAIN-1", "TC-SUSTAIN-2", "TC-BREAKOUT-1"}
AlertSeverities == {"info", "warning"}

\* the severity _build_event gives the label of the id: info for SUSTAIN,
\* warning for BREAKOUT
AlertSeverity(id) == IF id = "TC-BREAKOUT-1" THEN "warning" ELSE "info"

\* _SEVERITY_ORDER.get(severity, 0)
SeverityOrder(severity) ==
    CASE severity = "info" -> 0
      [] severity = "warning" -> 1
      [] severity = "error" -> 2
      [] severity = "critical" -> 3
      [] OTHER -> 0

\* an event as the evaluators build it: created_at is the time of the scan
AlertEvent(id, severity, t) ==
    [id |-> id, ts |-> t, symbol |-> Symbol, source |-> "cex",
     exchange |-> "binance", timeframe |-> "5m", rule |-> "trend_sustain",
     severity |-> severity, message |-> "alert", detail_json |-> <<>>,
     created_at |-> t, delivered |-> 0]

\* the rows of SELECT ... WHERE created_at > ? ORDER BY created_at ASC: every
\* order of the rows that ascends in created_at (rows of one second come in
\* any order)
CreatedOrders(table, created_after) ==
    LET rows == {e \in table :
                    IsSet(created_after) => e.created_at > Val(created_after)}
        n == Cardinality(rows)
    IN  {order \in [1..n -> rows] :
            /\ \A i, j \in 1..n : i # j => order[i] # order[j]
            /\ \A i, j \in 1..n : i < j => order[i].created_at <= order[j].created_at}

\* fetch_events_since on the ordered rows: LIMIT first, then the severity
\* filter
FetchEventsSince(order, limit, min_severity) ==
    LET IsRanked(e) == SeverityOrder(e.severity) >= SeverityOrder(min_severity)
        limited == SubSeq(order, 1, Min2(limit, Len(order)))
    IN  SelectSeq(limited, IsRanked)

\* the events processed so far, as a count per stored row (id, created_at,
\* severity): log with the rows of `fetched` counted in
Emitted(log, fetched) ==
    LET Row(e) == [id |-> e.id, created_at |-> e.created_at,
                   severity |-> e.severity]
        new == {Row(fetched[i]) : i \in DOMAIN fetched}
        Times(r) == Cardinality({i \in DOMAIN fetched : Row(fetched[i]) = r})
    IN  [r \in DOMAIN log \cup new |->
            (IF r \in DOMAIN log THEN log[r] ELSE 0) + Times(r)]

beyondNotifier ==
    <<bars1m, bars5m, bars15m, kv, rule, batch, lastScan, track, lastRollup,
      cooldown, settings, lastRun, history, tasks, threads, failStates,
      lastCloseTs>>

InitNotifier ==
    /\ bars1m = {}
    /\ bars5m = {}
    /\ bars15m = {}
    /\ ServiceIdle
    /\ events = {}
    /\ kv = None
    /\ rule = Rule("above", None, None, "", 0, 0)
    /\ now = 1
    /\ lastScan = NoScan
    /\ track = NoTrack
    /\ lastRollup = NoRollup
    /\ cooldown = {}
    /\ settings = NoSettings
    /\ lastRun = NoRun
    /\ history = NoHistory
    /\ batch = {}

PollTick ==
    /\ now < MaxPollClock
    /\ now' = now + 1
    /\ UNCHANGED <<events, notifier, notifierState, played, lastCall,
                   beyondNotifier>>

\* an evaluator fires: insert_event, an upsert on the id
EventArrives ==
    \E id \in AlertIds :
        /\ events' = InsertEvent(events, AlertEvent(id, AlertSeverity(id), now))
        /\ lastCall' = [kind |-> "insert"]
        /\ UNCHANGED <<now, notifier, notifierState, played, beyondNotifier>>

\* LocalNotifier(...): the client starts, or starts again with the same
\* arguments, and recovers last_created_at from local_notifier_state
Construct ==
    \E min_severity \in AlertSeverities :
        /\ notifier.constructed => min_severity = notifier.min_severity
        /\ notifier' = [constructed |-> TRUE, min_severity |-> min_severity,
                        last_created_at |->
                            IF IsSet(notifierState)
                            THEN Some(Val(notifierState).last_created_at)
                            ELSE None]
        /\ lastCall' = [kind |-> "construct"]
        /\ UNCHANGED <<now, events, notifierState, played, beyondNotifier>>

\* poll_once: every fetched event is emitted, update_local_notifier_state
\* is written and _last_created_at moves to its created_at
PollOnce ==
    /\ notifier.constructed
    /\ \E order \in CreatedOrders(events, notifier.last_created_at) :
          LET fetched == FetchEventsSince(order, FetchLimit,
                                          notifier.min_severity)
              last == fetched[Len(fetched)]
          IN  /\ played' = Emitted(played, fetched)
              /\ notifierState' =
                    IF fetched = <<>> THEN notifierState
                    ELSE Some([id |-> "default", last_event_id |-> last.id,
                               last_created_at |-> last.created_at,
                               updated_at |-> now])
              /\ notifier' =
                    IF fetched = <<>> THEN notifier
                    ELSE [notifier EXCEPT !.last_created_at = Some(last.created_at)]
              /\ lastCall' = [kind |-> "poll", processed |-> Len(fetched)]
    /\ UNCHANGED <<now, events, beyondNotifier>>

NextNotifier == PollTick \/ EventArrives \/ Construct \/ PollOnce

SpecNotifier == InitNotifier /\ [][NextNotifier]_vars

\* the client is polled again and again: run() loops over poll_once
SpecNotifierLive == SpecNotifier /\ WF_vars(PollOnce)

----------------------------------------------------------------------------
(* Properties of the notifier                                              *)

\* severity at or above the min_severity of the client
Ranked(severity) ==
    /\ notifier.constructed
    /\ SeverityOrder(severity) >= SeverityOrder(notifier.min_severity)

\* the event with this id is stored and its severity is ranked
StoredRanked(id) == \E e \in events : e.id = id /\ Ranked(e.severity)

\* poll_once has processed an event with this id
Processed(id) == \E r \in DOMAIN played : r.id = id

\* C36: under repeated poll_once calls every stored event whose severity is
\* at or above min_severity is eventually processed, however many events of
\* lower severity come before it in created_at order, and also when events
\* share a created_at second or arrive after a poll with the created_at of
\* the last processed event.
C36_EveryRankedProcessed ==
    \A id \in AlertIds : StoredRanked(id) ~> Processed(id)

\* a ranked event waits behind FetchLimit events of lower severity: every
\* poll fetches those, drops them, and leaves last_created_at where it was
StarvedBehindLimit ==
    /\ notifier.constructed
    /\ \E e \in events :
          /\ Ranked(e.severity)
          /\ ~Processed(e.id)
          /\ \A order \in CreatedOrders(events, notifier.last_created_at) :
                /\ \E i \in DOMAIN order : order[i] = e
                /\ FetchEventsSince(order, FetchLimit, notifier.min_severity) = <<>>

\* a ranked event was inserted in the second of the last processed event:
\* created_at > last_created_at leaves it out of every later poll
MissedSameSecond ==
    /\ notifier.constructed
    /\ \E e \in events :
          /\ Ranked(e.severity)
          /\ ~Processed(e.id)
          /\ notifier.last_created_at = Some(e.created_at)
          /\ now > e.created_at

\* C37: the client processes a stored event at most once, over any number
\* of polls and restarts; events below min_severity are never processed and
\* never move the persisted state.
C37_AtMostOnce ==
    /\ \A r \in DOMAIN played :
          /\ played[r] = 1
          /\ \A o \in DOMAIN played : o.id = r.id => o = r
          /\ Ranked(r.severity)
    /\ IsSet(notifierState) =>
          \E r \in DOMAIN played :
              /\ r.id = Val(notifierState).last_event_id
              /\ r.created_at = Val(notifierState).last_created_at

\* the same per stored row: a row (id, created_at) is processed at most
\* once, rows below min_severity never, and the persisted state names a
\* processed row
EachRowOnce ==
    /\ \A r \in DOMAIN played :
          /\ played[r] = 1
          /\ Ranked(r.severity)
    /\ IsSet(notifierState) =>
          \E r \in DOMAIN played :
              /\ r.id = Val(notifierState).last_event_id
              /\ r.created_at = Val(notifierState).last_created_at

\* an event was processed, fired again under the same id, and was processed
\* again after a restart of the client
ProcessedAgain ==
    /\ lastCall.kind = "poll"
    /\ \E r, o \in DOMAIN played : r.id = o.id /\ r.created_at < o.created_at

----------------------------------------------------------------------------
(* The service loop of run.py: loop_forever starts the periodic tasks; the  *)
(* rules task and the rollup task hand each call to a worker thread and     *)
(* wait for it, the price poll writes 1-minute candles in between.  A scan   *)
(* in its thread first reads (candles, cooldown rows, the rule's state) and  *)
(* then writes what it decided.                                              *)

MaxTicks == 1         \* the loop's clock advances MaxTicks times
RollupPeriod == 60
LoopStart == FrameClose + ScanPeriod
PollPrices == {Level - 1, Level + 1}
ProviderName == "binance_futures"

\* _rules_task._run: the calls of one pass, in order
RulesPass ==
    <<[fn |-> "run_volume_spike", timeframe |-> "5m"],
      [fn |-> "run_volume_spike", timeframe |-> "15m"],
      [fn |-> "scan_trend_channel", timeframe |-> "5m"],
      [fn |-> "scan_trend_channel", timeframe |-> "15m"],
      [fn |-> "scan_price_alerts", timeframe |-> ""]>>

\* _rollup_task._run: the calls of one pass, in order
RollupPass ==
    <<[fn |-> "rollup_bars", timeframe |-> "5m"],
      [fn |-> "rollup_bars", timeframe |-> "15m"]>>

PassOf(name) == IF name = "rules" THEN RulesPass ELSE RollupPass
IntervalOf(name) == IF name = "rules" THEN ScanPeriod ELSE RollupPeriod

ScanFns == {"run_volume_spike", "scan_trend_channel", "scan_price_alerts"}
ScanJobs == {job \in threads : job.fn \in ScanFns}

\* _periodic after coro() returned or raised: await asyncio.sleep(interval)
Asleep(name, t) == [at |-> "sleep", step |-> 0, until |-> t + IntervalOf(name)]

\* the coroutine after the call it awaited returned: the next call of the
\* pass, or the sleep of _periodic after the last one
Resumed(name, task, t) ==
    IF task.step = Len(PassOf(name)) THEN Asleep(name, t)
    ELSE [task EXCEPT !.at = "run", !.step = @ + 1]

\* variant of the await: the call is handed to the thread and not waited for
Detached(name, task, t) == Resumed(name, task, t)

\* await asyncio.to_thread(...): the coroutine is suspended until the call
\* is over
Awaiting(name, task, t) == [task EXCEPT !.at = "await"]

\* what a scan decided to write: the event, the cooldown row of its key and
\* the rule's runtime state, None where it writes nothing
ScanDecision(fn, timeframe) ==
    IF fn = "run_volume_spike"
    THEN LET out == VolumeSpikeFor(settings, timeframe, Symbol,
                                   TableOf(timeframe), cooldown, now)
         IN  [event |-> out.event, key |-> VolumeCooldownKey(Symbol, timeframe),
              label |-> "volume_spike", t |-> now, state |-> None]
    ELSE IF fn = "scan_trend_channel"
    THEN LET out == TrendChannelFor(settings, timeframe, Symbol,
                                    TableOf(timeframe), cooldown, now)
         IN  [event |-> out.event,
              key |-> TrendCooldownKey(Symbol, timeframe, out.label),
              label |-> out.label, t |-> now, state |-> None]
    ELSE LET price == LatestPrice(bars1m, rule.symbol)
         IN  IF ~IsSet(price)
             THEN [event |-> None, key |-> <<>>, label |-> "", t |-> now,
                   state |-> None]
             ELSE LET res == ScanRule(rule, Val(price), kv, now, bars5m)
                  IN  [event |-> IF res.fired
                                 THEN Some(BuildPriceEvent(rule, Val(price), now))
                                 ELSE None,
                       key |-> <<>>, label |-> "", t |-> now,
                       state |-> Some(res.state)]

\* variant: the evaluator deletes the candles older than the `limit` latest
CandlesAfterScanPruned(table, symbol, limit) ==
    LET rows == FetchRecentBars(table, symbol, limit)
    IN  {r \in table : r.symbol # symbol
                       \/ \E i \in DOMAIN rows : rows[i] = r}

\* the candle table as an evaluator leaves it: the evaluators only SELECT
\* from bars_1m, bars_5m and bars_15m
CandlesAfterScan(table, symbol, limit) == table

\* _build_bar_payload(token, price, ts, source)
BuildBarPayload(symbol, price, ts, source) ==
    [MakeBar(source, source, symbol, ts, price) EXCEPT
        !.open_ts = ts, !.high = price, !.low = price, !.volume_base = 0,
        !.volume_quote = 0, !.notional_usd = 0, !.trades = 0]

beyondLoop ==
    <<rule, batch, lastScan, track, lastRollup, settings, lastRun, history,
      notifier, notifierState, played, failStates, lastCloseTs>>

\* the candles of a rise that ends in a jump of high notional
LoopTable(timeframe) ==
    WriteFrame(timeframe,
               [i \in 1..TrendWindow |-> IF i = TrendWindow THEN i + 3 ELSE i + 1],
               [i \in 1..TrendWindow |->
                   IF i = TrendWindow THEN 6 ELSE IF i % 2 = 1 THEN 1 ELSE 3],
               TrendWindow)

\* loop_forever has created the tasks; none has run yet
InitLoop ==
    /\ bars1m = {}
    /\ bars5m = LoopTable("5m")
    /\ bars15m = LoopTable("15m")
    /\ ServiceIdle
    /\ events = {}
    /\ kv = None
    /\ rule = Rule("above", None, None, "", 0, 0)
    /\ now = LoopStart
    /\ lastScan = NoScan
    /\ track = NoTrack
    /\ lastRollup = NoRollup
    /\ cooldown = {}
    /\ settings \in CooldownConfigs
    /\ lastRun = NoRun
    /\ history = NoHistory
    /\ batch = {}

\* time passes
LoopTick ==
    /\ now < LoopStart + MaxTicks * ScanPeriod
    /\ now' = now + ScanPeriod
    /\ UNCHANGED <<bars1m, bars5m, bars15m, events, kv, cooldown, tasks,
                   threads, lastCall, beyondLoop>>

\* _periodic: the task starts, or its sleep is over: coro() is called
PeriodicRuns ==
    \E name \in DOMAIN tasks :
        /\ \/ tasks[name].at = "idle"
           \/ tasks[name].at = "sleep" /\ tasks[name].until <= now
        /\ tasks' = [tasks EXCEPT ![name] = [at |-> "run", step |-> 1,
                                             until |-> 0]]
        /\ UNCHANGED <<bars1m, bars5m, bars15m, events, kv, cooldown, now,
                       threads, lastCall, beyondLoop>>

\* await asyncio.to_thread(fn, ...): the next call of the pass starts in a
\* worker thread
ToThread ==
    \E name \in DOMAIN tasks :
        /\ tasks[name].at = "run"
        /\ threads' = threads \cup
                        {[task |-> name, step |-> tasks[name].step,
                          fn |-> PassOf(name)[tasks[name].step].fn,
                          timeframe |-> PassOf(name)[tasks[name].step].timeframe,
                          phase |-> "started", seen |-> None, out |-> None]}
        /\ tasks' = [tasks EXCEPT ![name] = Awaiting(name, @, now)]
        /\ UNCHANGED <<bars1m, bars5m, bars15m, events, kv, cooldown, now,
                       lastCall, beyondLoop>>

\* the coroutine of a call that is over goes on, if it waits for that call
Wake(job, t) ==
    IF tasks[job.task].at = "await" /\ tasks[job.task].step = job.step
    THEN [tasks EXCEPT ![job.task] = Resumed(job.task, @, t)]
    ELSE tasks

\* a scan in its thread reads the candles, the cooldown rows and the rule's
\* state, and decides
ScanReads ==
    \E job \in ScanJobs :
        /\ job.phase = "started"
        /\ threads' = (threads \ {job}) \cup
                        {[job EXCEPT !.phase = "decided",
                                     !.seen = Some(<<kv, cooldown>>),
                                     !.out = Some(ScanDecision(job.fn,
                                                               job.timeframe))]}
        /\ UNCHANGED <<bars1m, bars5m, bars15m, events, kv, cooldown, now,
                       tasks, lastCall, beyondLoop>>

\* the scan writes what it decided and returns
ScanReturns ==
    \E job \in ScanJobs :
        /\ job.phase = "decided"
        /\ LET w == Val(job.out)
           IN  /\ events' = IF IsSet(w.event)
                            THEN InsertEvent(events, Val(w.event)) ELSE events
               /\ cooldown' = IF IsSet(w.event) /\ job.fn # "scan_price_alerts"
                              THEN UpsertCooldownState(cooldown, w.key, Symbol,
                                                       w.label, job.timeframe,
                                                       w.t)
                              ELSE cooldown
               /\ kv' = IF IsSet(w.state) THEN w.state ELSE kv
        /\ bars1m' = CandlesAfterScan(bars1m, Symbol, 60)
        /\ bars5m' = CandlesAfterScan(bars5m, Symbol, settings.lookback + 1)
        /\ bars15m' = CandlesAfterScan(bars15m, Symbol, settings.lookback + 1)
        /\ threads' = threads \ {job}
        /\ tasks' = Wake(job, now)
        /\ lastCall' = [kind |-> "scan", fn |-> job.fn,
                        fired |-> IsSet(Val(job.out).event)]
        /\ UNCHANGED <<now, beyondLoop>>

\* a call in a thread raises: _periodic logs the exception and sleeps
CallRaises ==
    \E job \in threads :
        /\ threads' = threads \ {job}
        /\ tasks' = IF tasks[job.task].at = "await"
                       /\ tasks[job.task].step = job.step
                    THEN [tasks EXCEPT ![job.task] = Asleep(job.task, now)]
                    ELSE tasks
        /\ UNCHANGED <<bars1m, bars5m, bars15m, events, kv, cooldown, now,
                       lastCall, beyondLoop>>

\* rollup_bars("bars_1m", "bars_5m", 5) or rollup_bars("bars_1m", "bars_15m",
\* 15) in its thread
RollupReturns ==
    \E job \in threads :
        /\ job.fn = "rollup_bars"
        /\ IF job.timeframe = "5m"
           THEN /\ bars5m' = RollupBars(bars1m, bars5m, 5, None)
                /\ UNCHANGED bars15m
           ELSE /\ bars15m' = RollupBars(bars1m, bars15m, 15, None)
                /\ UNCHANGED bars5m
        /\ threads' = threads \ {job}
        /\ tasks' = Wake(job, now)
        /\ UNCHANGED <<bars1m, events, kv, cooldown, now, lastCall, beyondLoop>>

\* _price_poll_task: upsert_bar("bars_1m", _build_bar_payload(...)), once in
\* a second of the clock
PricePoll ==
    \E price \in PollPrices :
        /\ \A bar \in bars1m : bar.close_ts # now
        /\ bars1m' = UpsertBar(bars1m,
                               BuildBarPayload(Symbol, price, now, ProviderName))
        /\ UNCHANGED <<bars5m, bars15m, events, kv, cooldown, now, tasks,
                       threads, lastCall, beyondLoop>>

NextLoop ==
    \/ LoopTick
    \/ PeriodicRuns
    \/ ToThread
    \/ ScanReads
    \/ ScanReturns
    \/ CallRaises
    \/ RollupReturns
    \/ PricePoll

SpecLoop == InitLoop /\ [][NextLoop]_vars

----------------------------------------------------------------------------
(* Properties of the service loop                                           *)

\* C34: in the service loop rule scans are never re-entrant: at most one of
\* run_volume_spike, scan_trend_channel and scan_price_alerts is in a thread
\* at any time, it is the call the rules task is waiting for (so a pass that
\* sleeps or has not started has no scan running, and the next pass starts
\* only after the last call of the previous one returned or raised), and
\* between a scan's read and its write no other scan has written the rule's
\* state or a cooldown row.  Rollup and ingestion are not part of this: they
\* run while a scan does.
C34_ScansNotReentrant ==
    /\ Cardinality(ScanJobs) <= 1
    /\ tasks.rules.at # "await" => ScanJobs = {}
    /\ \A job \in ScanJobs :
          /\ job.step = tasks.rules.step
          /\ job.fn = RulesPass[job.step].fn
          /\ job.phase = "decided" => job.seen = Some(<<kv, cooldown>>)

\* a scan that is about to write an event and a cooldown row runs while a
\* rollup call is in its thread and the price poll has written candles
C34_Witness ==
    /\ \E job \in ScanJobs :
          /\ job.phase = "decided"
          /\ IsSet(Val(job.out).event)
          /\ job.fn # "scan_price_alerts"
    /\ \E job \in threads : job.fn = "rollup_bars"
    /\ \E bar \in bars1m : bar.close_ts = now

\* a scan of the second pass runs after scans of the first pass have fired
C34_WitnessNextPass ==
    /\ ScanJobs # {}
    /\ now > LoopStart
    /\ cooldown # {}
    /\ kv # None

\* a step of an evaluator: a scan starts, reads, returns or raises
ScanStep == ScanJobs' # ScanJobs

\* C35: rule evaluators are read-only on candles: no step of run_volume_spike,
\* scan_trend_channel or scan_price_alerts changes bars_1m, bars_5m or
\* bars_15m; of the tables they touch only events, the rule's runtime state
\* and the cooldown rows.
C35_ScansLeaveCandles ==
    [][ScanStep =>
         /\ bars1m' = bars1m /\ bars5m' = bars5m /\ bars15m' = bars15m
         /\ rule' = rule /\ settings' = settings
         /\ notifierState' = notifierState]_vars

\* a scan returned after it wrote an event, with more candles in bars_5m than
\* run_volume_spike reads
C35_Witness ==
    /\ lastCall.kind = "scan"
    /\ lastCall.fired
    /\ bars1m # {}
    /\ Cardinality(bars5m) > settings.lookback + 1
    /\ bars15m # {}

\* scan_price_alerts returned after it wrote an event and the rule's state
C35_WitnessPrice ==
    /\ lastCall.kind = "scan"
    /\ lastCall.fn = "scan_price_alerts"
    /\ lastCall.fired
    /\ kv # None
    /\ bars1m # {}

\* scan_trend_channel returned after it wrote an event and a cooldown row
C35_WitnessTrend ==
    /\ lastCall.kind = "scan"
    /\ lastCall.fn = "scan_trend_channel"
    /\ lastCall.fired
    /\ \E row \in cooldown : row.id[1] = "trend"

====
